---- MODULE Spec2Model ----
(***************************************************************************)
(* Midas trading engine: the backtest market-data clock (DataClient) with  *)
(* its end-of-day handshake, the PortfolioServer and the                   *)
(* OrderExecutionManager.                                                  *)
(*                                                                         *)
(* SpecClock      DataClient.get_data / data_stream, one clock thread and  *)
(*                one consumer thread sharing event_queue, eod_event_flag  *)
(* SpecPortfolio  PortfolioServer.update_*, one call is one step           *)
(* SpecOrders     OrderExecutionManager.handle_event between portfolio     *)
(*                updates, all on the consumer thread                      *)
(* SpecObserver   Subject.attach / detach / notify, and the PortfolioServer*)
(*                as a Subject                                             *)
(* SpecSignals    handle_event with signals of two trades, instructions    *)
(*                that do not convert and an observer that may raise       *)
(* SpecConstruct  the order constructors of midas/shared/orders.py         *)
(* SpecContracts  ContractManager.validate_contract                        *)
(* SpecReentrant  handle_event with an ORDER_CREATED observer that calls   *)
(*                update_account_details from its handler                  *)
(* SpecClockFair  the clock and the consumer under fair scheduling, on the *)
(*                rows of one instrument                                   *)
(* SpecMutation   Subject.notify with handlers that attach and detach      *)
(***************************************************************************)
EXTENDS Integers, Sequences, FiniteSets, TLC

(***************************************************************************)
(* Bounds of the model.                                                    *)
(***************************************************************************)
\* rows in the response of the database (get_data)
MaxRows == 3
\* timestamps of the rows are 0..MaxTs, in ticks
MaxTs == 7
\* ticks per microsecond: datetime keeps microseconds, the timestamps are finer
TicksPerMicro == 2
\* microseconds per calendar day (scaled down)
MicrosPerDay == 2
\* position quantities are -MaxPosition..MaxPosition
MaxPosition == 1
\* account capital is 0..MaxCapital
MaxCapital == 3
\* instruction quantities are 0..MaxQuantity
MaxQuantity == 1
\* an observer list of the Subject holds at most MaxAttach observers
MaxAttach == 2

Symbols == {"AAPL", "TSLA"}

\* current_day = None
NoDay == -1
\* next_date = None
NoDate == -1

VARIABLES
    \* ---- DataClient
    data,                \* self.data: the processed rows, sorted by timestamp
    unique_timestamps,   \* self.unique_timestamps
    next_date,           \* self.next_date
    current_date_index,  \* self.current_date_index
    current_day,         \* self.current_day
    eod_event_flag,      \* threading.Event shared with the consumer
    event_queue,         \* queue.Queue shared with the consumer
    clock_pc,            \* position of the clock thread in get_data / data_stream
    returned,            \* what the last data_stream call returned
    \* ---- consumer loop
    handling,            \* the event the consumer is dispatching
    \* ---- history
    put_log,             \* every event put on event_queue, in order
    out_of_order,        \* the rows of the response were not in timestamp order
    returned_early,      \* some data_stream call returned from inside the flag wait
    \* ---- PortfolioServer
    positions,                \* self.positions: symbol -> Position
    active_orders,            \* self.active_orders: orderId -> ActiveOrder
    pending_positions_update, \* self.pending_positions_update
    account,                  \* self.account
    \* ---- the call the consumer thread made last
    last_call,           \* the method called last, with its PortfolioServer arguments
    notified,            \* the event types the PortfolioServer passed to notify in it
    \* ---- OrderExecutionManager.handle_event, from call to return
    om_pc,               \* "idle", or "handled" between the end of the call and its return
    event_arg,           \* the event handle_event was called with
    emitted,             \* the OrderEvents it published as ORDER_CREATED, in order
    raised,              \* the exception it ended with, or "none"
    raised_cause,        \* the exception that exception was raised from, or "none"
    observer_fails,      \* the observer attached to the manager for ORDER_CREATED raises
    observer_updates,    \* the account details that observer passes to
                         \* update_account_details in its handler, or NoAccount
    \* ---- orders (midas/shared/orders.py)
    built,               \* the order constructor called last, its arguments and result
    \* ---- ContractManager
    validated_contracts,      \* self.validated_contracts: symbol -> Contract
    validate_contract_event,  \* self.app.validate_contract_event
    is_valid_contract,        \* self.app.is_valid_contract
    request_count,            \* the reqContractDetails requests made
    contract_call,            \* the validate_contract call made last and its response
    \* ---- Subject (the PortfolioServer is one)
    observers,           \* self._observers: EventType -> list of observers
    subject_call,        \* the attach / detach / notify call made last
    invoked,             \* the observers whose handle_event the last call invoked, in order
    call_raised          \* the exception the last Subject or PortfolioServer call ended with

clock_vars == <<data, unique_timestamps, next_date, current_date_index,
                current_day, eod_event_flag, event_queue, clock_pc, returned,
                handling, put_log, out_of_order, returned_early>>

portfolio_vars == <<positions, active_orders, pending_positions_update, account,
                    last_call, notified>>

manager_vars == <<om_pc, event_arg, emitted, raised, raised_cause, observer_fails,
                  observer_updates>>

order_vars == <<built>>

contract_vars == <<validated_contracts, validate_contract_event, is_valid_contract,
                   request_count, contract_call>>

observer_vars == <<observers, subject_call, invoked, call_raised>>

vars == <<clock_vars, portfolio_vars, manager_vars, observer_vars, order_vars,
          contract_vars>>

(***************************************************************************)
(* Helpers                                                                 *)
(***************************************************************************)
Range(s) == {s[i] : i \in 1..Len(s)}

RECURSIVE SeqOfSet(_)
\* some enumeration of a finite set (the iteration order of a set or dict)
SeqOfSet(S) ==
    IF S = {} THEN <<>>
    ELSE LET x == CHOOSE y \in S : TRUE
         IN <<x>> \o SeqOfSet(S \ {x})

(***************************************************************************)
(* Events on the queue: EODEvent(timestamp = day) and the MarketEvent the  *)
(* order book posts for a batch.                                           *)
(***************************************************************************)
EODEvent(day) == [type |-> "END-OF-DAY", timestamp |-> day, tickers |-> {}]

MarketEvent(ts, tickers) == [type |-> "MARKET_DATA", timestamp |-> ts, tickers |-> tickers]

NoEvent == [type |-> "NONE", timestamp |-> 0, tickers |-> {}]

(***************************************************************************)
(* unix_to_iso followed by parser.parse(iso).date(): the timestamp is      *)
(* divided down to seconds as a float and datetime.fromtimestamp rounds it *)
(* to a whole microsecond (half to even); the date is the day of that      *)
(* microsecond.                                                            *)
(***************************************************************************)
unix_to_iso(unix_timestamp) ==
    LET whole == unix_timestamp \div TicksPerMicro
        rest  == unix_timestamp % TicksPerMicro
    IN  IF 2 * rest > TicksPerMicro \/ (2 * rest = TicksPerMicro /\ whole % 2 = 1)
        THEN whole + 1
        ELSE whole

date(iso) == iso \div MicrosPerDay

DayOf(ts) == date(unix_to_iso(ts))

(***************************************************************************)
(* _process_bardata: data.sort_values(by='timestamp', ascending=True)      *)
(***************************************************************************)
RECURSIVE InsertRow(_, _)
InsertRow(sorted, row) ==
    IF sorted = <<>> THEN <<row>>
    ELSE IF Head(sorted).timestamp <= row.timestamp
         THEN <<Head(sorted)>> \o InsertRow(Tail(sorted), row)
         ELSE <<row>> \o sorted

\* a replay that keeps the rows in the order of the response
sort_values_unsorted(rows) == rows

RECURSIVE sort_values(_)
sort_values(rows) ==
    IF rows = <<>> THEN <<>>
    ELSE InsertRow(sort_values(SubSeq(rows, 1, Len(rows) - 1)), rows[Len(rows)])

process_bardata(rows) == sort_values(rows)

\* a list of timestamps that keeps the duplicates
unique_keep_all(s) == s

RECURSIVE unique(_)
\* Series.unique(): the distinct values in order of first appearance
unique(s) ==
    IF s = <<>> THEN <<>>
    ELSE LET init == unique(SubSeq(s, 1, Len(s) - 1))
             x    == s[Len(s)]
         IN  IF x \in Range(init) THEN init ELSE Append(init, x)

Rows == [timestamp : 0..MaxTs, symbol : Symbols]

Responses == UNION {[1..n -> Rows] : n \in 1..MaxRows}

(***************************************************************************)
(* DataClient.get_data                                                     *)
(***************************************************************************)
get_data(response) ==
    /\ clock_pc = "new"
    /\ data' = process_bardata(response)
    /\ unique_timestamps' = unique([i \in 1..Len(response) |-> data'[i].timestamp])
    /\ out_of_order' = (\E i \in 1..(Len(response) - 1) :
                           response[i].timestamp > response[i + 1].timestamp)
    /\ clock_pc' = "idle"
    /\ UNCHANGED <<next_date, current_date_index, current_day, eod_event_flag,
                   event_queue, returned, handling, put_log, returned_early>>
    /\ UNCHANGED <<portfolio_vars, manager_vars, observer_vars, order_vars, contract_vars>>

(***************************************************************************)
(* DataClient.data_stream, one step per shared-memory access               *)
(***************************************************************************)
\* a data_stream that takes every call after the first for a day transition
data_stream_every_call ==
    /\ clock_pc = "idle"
    /\ IF current_date_index >= Len(unique_timestamps)
       THEN /\ returned' = "False"
            /\ UNCHANGED <<next_date, current_day, eod_event_flag, clock_pc>>
       ELSE /\ next_date' = unique_timestamps[current_date_index + 1]
            /\ IF current_day # NoDay
               THEN /\ eod_event_flag' = FALSE
                    /\ clock_pc' = "eod"
                    /\ UNCHANGED current_day
               ELSE /\ current_day' = DayOf(next_date')
                    /\ clock_pc' = "wait"
                    /\ UNCHANGED eod_event_flag
            /\ returned' = "running"
    /\ UNCHANGED <<data, unique_timestamps, current_date_index, event_queue,
                   handling, put_log, out_of_order,
                   returned_early>>
    /\ UNCHANGED <<portfolio_vars, manager_vars, observer_vars, order_vars, contract_vars>>

\* a data_stream that starts the replay over when the data is exhausted
data_stream_rewind ==
    /\ clock_pc = "idle"
    /\ IF current_date_index >= Len(unique_timestamps)
       THEN /\ returned' = "False"
            /\ current_date_index' = 0
            /\ UNCHANGED <<next_date, current_day, eod_event_flag, clock_pc>>
       ELSE /\ next_date' = unique_timestamps[current_date_index + 1]
            /\ LET next_day == DayOf(next_date')
               IN  IF current_day = NoDay \/ next_day # current_day
                   THEN IF current_day # NoDay
                        THEN /\ eod_event_flag' = FALSE
                             /\ clock_pc' = "eod"
                             /\ UNCHANGED current_day
                        ELSE /\ current_day' = next_day
                             /\ clock_pc' = "wait"
                             /\ UNCHANGED eod_event_flag
                   ELSE /\ clock_pc' = "wait"
                        /\ UNCHANGED <<current_day, eod_event_flag>>
            /\ returned' = "running"
            /\ UNCHANGED current_date_index
    /\ UNCHANGED <<data, unique_timestamps, event_queue,
                   handling, put_log, out_of_order,
                   returned_early>>
    /\ UNCHANGED <<portfolio_vars, manager_vars, observer_vars, order_vars, contract_vars>>

\* entry: exhaustion test, next_date, day-boundary test, eod_event_flag.clear()
data_stream ==
    /\ clock_pc = "idle"
    /\ IF current_date_index >= Len(unique_timestamps)
       THEN /\ returned' = "False"
            /\ UNCHANGED <<next_date, current_day, eod_event_flag, clock_pc>>
       ELSE /\ next_date' = unique_timestamps[current_date_index + 1]
            /\ LET next_day == DayOf(next_date')
               IN  IF current_day = NoDay \/ next_day # current_day
                   THEN IF current_day # NoDay
                        THEN /\ eod_event_flag' = FALSE
                             /\ clock_pc' = "eod"
                             /\ UNCHANGED current_day
                        ELSE /\ current_day' = next_day
                             /\ clock_pc' = "wait"
                             /\ UNCHANGED eod_event_flag
                   ELSE /\ clock_pc' = "wait"
                        /\ UNCHANGED <<current_day, eod_event_flag>>
            /\ returned' = "running"
    /\ UNCHANGED <<data, unique_timestamps, current_date_index, event_queue,
                   handling, put_log, out_of_order,
                   returned_early>>
    /\ UNCHANGED <<portfolio_vars, manager_vars, observer_vars, order_vars, contract_vars>>

\* a day boundary that clears the flag once more after the put
process_eod_clear_after ==
    /\ clock_pc = "eod"
    /\ IF put_log # <<>> /\ put_log[Len(put_log)] = EODEvent(current_day)
       THEN /\ eod_event_flag' = FALSE
            /\ current_day' = DayOf(next_date)
            /\ clock_pc' = "wait"
            /\ UNCHANGED <<event_queue, put_log>>
       ELSE /\ event_queue' = Append(event_queue, EODEvent(current_day))
            /\ put_log' = Append(put_log, EODEvent(current_day))
            /\ UNCHANGED <<eod_event_flag, current_day, clock_pc>>
    /\ UNCHANGED <<data, unique_timestamps, next_date, current_date_index,
                   returned, handling, out_of_order, returned_early>>
    /\ UNCHANGED <<portfolio_vars, manager_vars, observer_vars, order_vars, contract_vars>>

\* a day boundary that leaves current_day as it was
process_eod_keep_day ==
    /\ clock_pc = "eod"
    /\ event_queue' = Append(event_queue, EODEvent(current_day))
    /\ put_log' = Append(put_log, EODEvent(current_day))
    /\ clock_pc' = "wait"
    /\ UNCHANGED <<data, unique_timestamps, next_date, current_date_index, current_day,
                   eod_event_flag, returned, handling, out_of_order,
                   returned_early>>
    /\ UNCHANGED <<portfolio_vars, manager_vars, observer_vars, order_vars, contract_vars>>

\* self._process_eod(self.current_day); self.current_day = next_day
process_eod ==
    /\ clock_pc = "eod"
    /\ event_queue' = Append(event_queue, EODEvent(current_day))
    /\ put_log' = Append(put_log, EODEvent(current_day))
    /\ current_day' = DayOf(next_date)
    /\ clock_pc' = "wait"
    /\ UNCHANGED <<data, unique_timestamps, next_date, current_date_index,
                   eod_event_flag, returned, handling, out_of_order,
                   returned_early>>
    /\ UNCHANGED <<portfolio_vars, manager_vars, observer_vars, order_vars, contract_vars>>

\* a wait loop that does not look at the flag
wait_test_blind ==
    /\ clock_pc = "wait"
    /\ clock_pc' = "publish"
    /\ UNCHANGED <<data, unique_timestamps, next_date, current_date_index,
                   current_day, eod_event_flag, event_queue, returned, handling,
                   put_log, out_of_order,
                   returned_early>>
    /\ UNCHANGED <<portfolio_vars, manager_vars, observer_vars, order_vars, contract_vars>>

\* a wait loop that never finds the flag set
wait_test_stuck ==
    /\ clock_pc = "wait"
    /\ clock_pc' = "poll"
    /\ UNCHANGED <<data, unique_timestamps, next_date, current_date_index,
                   current_day, eod_event_flag, event_queue, returned, handling,
                   put_log, out_of_order,
                   returned_early>>
    /\ UNCHANGED <<portfolio_vars, manager_vars, observer_vars, order_vars, contract_vars>>

\* while not self.eod_event_flag.is_set()
wait_test ==
    /\ clock_pc = "wait"
    /\ clock_pc' = IF eod_event_flag THEN "publish" ELSE "poll"
    /\ UNCHANGED <<data, unique_timestamps, next_date, current_date_index,
                   current_day, eod_event_flag, event_queue, returned, handling,
                   put_log, out_of_order,
                   returned_early>>
    /\ UNCHANGED <<portfolio_vars, manager_vars, observer_vars, order_vars, contract_vars>>

\* a poll that does not look at the queue
wait_poll_blocking ==
    /\ clock_pc = "poll"
    /\ clock_pc' = "wait"
    /\ UNCHANGED <<data, unique_timestamps, next_date, current_date_index,
                   current_day, eod_event_flag, event_queue, returned, handling,
                   put_log, out_of_order, returned_early>>
    /\ UNCHANGED <<portfolio_vars, manager_vars, observer_vars, order_vars, contract_vars>>

\* self.eod_event_flag.wait(timeout=0.1); if not self.event_queue.empty(): return True
wait_poll ==
    /\ clock_pc = "poll"
    /\ IF event_queue # <<>>
       THEN /\ returned' = "True"
            /\ clock_pc' = "idle"
            /\ returned_early' = TRUE
       ELSE /\ clock_pc' = "wait"
            /\ UNCHANGED <<returned, returned_early>>
    /\ UNCHANGED <<data, unique_timestamps, next_date, current_date_index,
                   current_day, eod_event_flag, event_queue, handling, put_log, out_of_order>>
    /\ UNCHANGED <<portfolio_vars, manager_vars, observer_vars, order_vars, contract_vars>>

\* self.data[self.data['timestamp'] == self.next_date]
get_latest_data == SelectSeq(data, LAMBDA row : row.timestamp = next_date)

\* the keys of result_dict
result_dict == {row.symbol : row \in Range(get_latest_data)}

\* self._set_market_data(); self.current_date_index += 1; return True
set_market_data ==
    /\ clock_pc = "publish"
    /\ event_queue' = Append(event_queue, MarketEvent(next_date, result_dict))
    /\ put_log' = Append(put_log, MarketEvent(next_date, result_dict))
    /\ current_date_index' = current_date_index + 1
    /\ returned' = "True"
    /\ clock_pc' = "idle"
    /\ UNCHANGED <<data, unique_timestamps, next_date, current_day,
                   eod_event_flag, handling, out_of_order,
                   returned_early>>
    /\ UNCHANGED <<portfolio_vars, manager_vars, observer_vars, order_vars, contract_vars>>

(***************************************************************************)
(* The consumer loop: pops the events in FIFO order and dispatches each;   *)
(* end-of-day processing holds the flag clear and sets it when done.       *)
(***************************************************************************)
consumer_get ==
    /\ handling = NoEvent
    /\ event_queue # <<>>
    /\ handling' = Head(event_queue)
    /\ event_queue' = Tail(event_queue)
    /\ eod_event_flag' = IF Head(event_queue).type = "END-OF-DAY" THEN FALSE ELSE eod_event_flag
    /\ UNCHANGED <<data, unique_timestamps, next_date, current_date_index,
                   current_day, clock_pc, returned, put_log, out_of_order,
                   returned_early>>
    /\ UNCHANGED <<portfolio_vars, manager_vars, observer_vars, order_vars, contract_vars>>

consumer_done ==
    /\ handling # NoEvent
    /\ eod_event_flag' = IF handling.type = "END-OF-DAY" THEN TRUE ELSE eod_event_flag
    /\ handling' = NoEvent
    /\ UNCHANGED <<data, unique_timestamps, next_date, current_date_index,
                   current_day, event_queue, clock_pc, returned, put_log, out_of_order,
                   returned_early>>
    /\ UNCHANGED <<portfolio_vars, manager_vars, observer_vars, order_vars, contract_vars>>

(***************************************************************************)
(* Subject.notify as the PortfolioServer and the OrderExecutionManager use *)
(* it: the call is recorded in the log of the running method               *)
(***************************************************************************)
notify(log, event) == Append(log, event)

(***************************************************************************)
(* PortfolioServer                                                         *)
(***************************************************************************)
\* broker order ids
OrderIds == {1, 2}

\* order['status']: two open statuses and the two terminal ones
OpenStatuses == {"PreSubmitted", "Submitted"}

Statuses == OpenStatuses \cup {"Filled", "Cancelled"}

\* ActiveOrder
Orders == [orderId : OrderIds, symbol : Symbols, status : Statuses]

NoOrder == [orderId |-> 0, symbol |-> "", status |-> ""]

\* Position
Positions == [quantity : (0 - MaxPosition)..MaxPosition]

NoPosition == [quantity |-> 0 - MaxPosition - 1]

\* Account; self.account is not set before the first update_account_details
Accounts == [capital : 0..MaxCapital]

NoAccount == [capital |-> -1]

\* the call recorded in last_call; present: the instrument had a position
\* (update_positions), the order id was active (update_orders) when it was made
Call(op, symbol, position, order, details, present) ==
    [op |-> op, symbol |-> symbol, position |-> position, order |-> order,
     account |-> details, present |-> present]

NoCall == Call("none", "", NoPosition, NoOrder, NoAccount, FALSE)

\* del d[key]
DictDel(d, key) == [k \in DOMAIN d \ {key} |-> d[k]]

\* d[key] = value
DictSet(d, key, value) == [k \in DOMAIN d \cup {key} |-> IF k = key THEN value ELSE d[k]]

(***************************************************************************)
(* Subject (observer/base.py): the registry of observers per event type    *)
(***************************************************************************)
\* class EventType(Enum)
EventType ==
    {"MARKET_DATA", "ORDER_BOOK", "SIGNAL", "ORDER_CREATED", "TRADE_EXECUTED",
     "EOD_EVENT", "POSITION_UPDATE", "ORDER_UPDATE", "ACCOUNT_UPDATE",
     "EQUITY_VALUE_UPDATE", "RISK_UPDATE", "TRADE_UPDATE", "TRADE_COMMISSION_UPDATE"}

\* the observers that attach, and the event types they attach for
Observers == {"database_updater", "performance_manager"}

ObservedTypes == {"ACCOUNT_UPDATE", "ORDER_UPDATE"}

\* the call recorded in subject_call; failing: the observers whose handle_event
\* raises when it is invoked in the call
SubjectCall(op, observer, event_type, failing) ==
    [op |-> op, observer |-> observer, event_type |-> event_type, failing |-> failing]

NoSubjectCall == SubjectCall("none", "", "", {})

\* self._observers[event_type], the empty list when the type has no key
observers_of(event_type) ==
    IF event_type \in DOMAIN observers THEN observers[event_type] ELSE <<>>

RECURSIVE remove(_, _)
\* list.remove(x): the first occurrence goes
remove(list, x) ==
    IF list = <<>> THEN <<>>
    ELSE IF Head(list) = x THEN Tail(list)
         ELSE <<Head(list)>> \o remove(Tail(list), x)

\* the number of occurrences of x in the list
count(list, x) == Cardinality({i \in 1..Len(list) : list[i] = x})

RECURSIVE invoke_each(_, _, _)
\* for observer in self._observers[event_type]: observer.handle_event(...)
\* an exception of a handler ends the loop and leaves the call
invoke_each(list, failing, done) ==
    IF list = <<>> THEN [invoked |-> done, raised |-> "none"]
    ELSE IF Head(list) \in failing
         THEN [invoked |-> Append(done, Head(list)), raised |-> "HandlerError"]
         ELSE invoke_each(Tail(list), failing, Append(done, Head(list)))

\* a notify that invokes the observers last attached first
deliver_reversed(event_type, failing) ==
    LET list == observers_of(event_type)
    IN  invoke_each([i \in 1..Len(list) |-> list[Len(list) + 1 - i]], failing, <<>>)

\* a notify that catches the exception of a handler and goes on
deliver_isolated(event_type, failing) ==
    [invoked |-> observers_of(event_type), raised |-> "none"]

\* the body of Subject.notify(event_type)
deliver(event_type, failing) ==
    IF event_type \in DOMAIN observers
    THEN invoke_each(observers[event_type], failing, <<>>)
    ELSE [invoked |-> <<>>, raised |-> "none"]

\* Subject.attach(observer, event_type)
attach(observer, event_type) ==
    /\ Len(observers_of(event_type)) < MaxAttach
    /\ observers' = DictSet(observers, event_type,
                            Append(observers_of(event_type), observer))
    /\ subject_call' = SubjectCall("attach", observer, event_type, {})
    /\ invoked' = <<>>
    /\ call_raised' = "none"
    /\ last_call' = NoCall
    /\ notified' = <<>>
    /\ UNCHANGED <<positions, active_orders, pending_positions_update, account>>
    /\ UNCHANGED <<order_vars, contract_vars, clock_vars, manager_vars>>

\* a detach that takes every occurrence of the observer off the list
detach_all(observer, event_type) ==
    /\ IF event_type \in DOMAIN observers
       THEN observers' = DictSet(observers, event_type,
                                 SelectSeq(observers[event_type],
                                           LAMBDA o : o # observer))
       ELSE UNCHANGED observers
    /\ subject_call' = SubjectCall("detach", observer, event_type, {})
    /\ invoked' = <<>>
    /\ call_raised' = "none"
    /\ last_call' = NoCall
    /\ notified' = <<>>
    /\ UNCHANGED <<positions, active_orders, pending_positions_update, account>>
    /\ UNCHANGED <<order_vars, contract_vars, clock_vars, manager_vars>>

\* Subject.detach(observer, event_type)
detach(observer, event_type) ==
    /\ IF /\ event_type \in DOMAIN observers
          /\ observer \in Range(observers[event_type])
       THEN observers' = DictSet(observers, event_type,
                                 remove(observers[event_type], observer))
       ELSE UNCHANGED observers
    /\ subject_call' = SubjectCall("detach", observer, event_type, {})
    /\ invoked' = <<>>
    /\ call_raised' = "none"
    /\ last_call' = NoCall
    /\ notified' = <<>>
    /\ UNCHANGED <<positions, active_orders, pending_positions_update, account>>
    /\ UNCHANGED <<order_vars, contract_vars, clock_vars, manager_vars>>

\* Subject.notify(event_type), called from outside the PortfolioServer methods
subject_notify(event_type, failing) ==
    /\ LET result == deliver(event_type, failing)
       IN  /\ invoked' = result.invoked
           /\ call_raised' = result.raised
    /\ subject_call' = SubjectCall("notify", "", event_type, failing)
    /\ last_call' = NoCall
    /\ notified' = <<>>
    /\ UNCHANGED observers
    /\ UNCHANGED <<positions, active_orders, pending_positions_update, account>>
    /\ UNCHANGED <<order_vars, contract_vars, clock_vars, manager_vars>>

\* what the handler of an observer does with the list it is invoked from: it
\* returns, it detaches its observer, or it attaches its observer once more
Handlers == {"return", "detach", "attach"}

\* the list after the handler of the observer has run
handled(list, observer, handler) ==
    IF handler = "detach" /\ observer \in Range(list) THEN remove(list, observer)
    ELSE IF handler = "attach" /\ Len(list) < MaxAttach THEN Append(list, observer)
    ELSE list

RECURSIVE iterate(_, _, _, _)
\* for observer in self._observers[event_type]: the list iterator holds an index
\* into the list itself and reads the list again at every step
iterate(list, index, handler, done) ==
    IF index > Len(list) THEN [observers |-> list, invoked |-> done]
    ELSE iterate(handled(list, list[index], handler[list[index]]), index + 1, handler,
                 Append(done, list[index]))

\* Subject.notify(event_type) with observers whose handlers attach and detach
\* for the event type of the call
notify_mutating(event_type, handler) ==
    /\ event_type \in DOMAIN observers
    /\ LET result == iterate(observers[event_type], 1, handler, <<>>)
       IN  /\ invoked' = result.invoked
           /\ observers' = DictSet(observers, event_type, result.observers)
    /\ call_raised' = "none"
    /\ subject_call' = SubjectCall("notify", "", event_type, {})
    /\ last_call' = NoCall
    /\ notified' = <<>>
    /\ UNCHANGED <<positions, active_orders, pending_positions_update, account>>
    /\ UNCHANGED <<order_vars, contract_vars, clock_vars, manager_vars>>

\* Subject.__init__
InitSubject ==
    /\ observers = [t \in {} |-> <<>>]
    /\ subject_call = NoSubjectCall
    /\ invoked = <<>>
    /\ call_raised = "none"

\* self.notify(event_type) in a method of the PortfolioServer, whose observers
\* (the database updater, the performance manager) return from their handlers
published(event_type) ==
    /\ invoked' = deliver(event_type, {}).invoked
    /\ call_raised' = "none"
    /\ subject_call' = NoSubjectCall
    /\ UNCHANGED observers

\* a method of the PortfolioServer that ends before it reaches notify
unpublished(exception) ==
    /\ invoked' = <<>>
    /\ call_raised' = exception
    /\ subject_call' = NoSubjectCall
    /\ UNCHANGED observers

\* a ticker list that leaves the pending symbols out
get_active_order_tickers_active_only ==
    LET ids == SeqOfSet(DOMAIN active_orders)
        active_order_tickers == [i \in 1..Len(ids) |-> active_orders[ids[i]].symbol]
    IN  SeqOfSet(Range(active_order_tickers))

\* PortfolioServer.get_active_order_tickers: the symbols of the active orders as a
\* list, the pending symbols appended, then list(set(...))
get_active_order_tickers ==
    LET ids == SeqOfSet(DOMAIN active_orders)
        active_order_tickers == [i \in 1..Len(ids) |-> active_orders[ids[i]].symbol]
    IN  SeqOfSet(Range(active_order_tickers \o SeqOfSet(pending_positions_update)))

\* an update_positions that takes every pending marker with it
update_positions_clear_all(symbol, new_position) ==
    /\ om_pc = "idle"
    /\ IF symbol \in DOMAIN positions
       THEN IF new_position.quantity = 0
            THEN /\ positions' = DictDel(positions, symbol)
                 /\ pending_positions_update' = {}
                 /\ notified' = notify(<<>>, "POSITION_UPDATE")
                 /\ published("POSITION_UPDATE")
            ELSE /\ notified' = <<>>
                 /\ unpublished("none")
                 /\ UNCHANGED <<positions, pending_positions_update>>
       ELSE /\ positions' = DictSet(positions, symbol, new_position)
            /\ pending_positions_update' = {}
            /\ notified' = notify(<<>>, "POSITION_UPDATE")
            /\ published("POSITION_UPDATE")
    /\ last_call' = Call("update_positions", symbol, new_position, NoOrder, NoAccount,
                        symbol \in DOMAIN positions)
    /\ UNCHANGED <<active_orders, account>>
    /\ UNCHANGED <<order_vars, contract_vars, clock_vars, manager_vars>>

\* PortfolioServer.update_positions(contract, new_position), contract.symbol = symbol
update_positions(symbol, new_position) ==
    /\ om_pc = "idle"
    /\ IF symbol \in DOMAIN positions
       THEN IF new_position.quantity = 0
            THEN /\ positions' = DictDel(positions, symbol)
                 /\ pending_positions_update' = pending_positions_update \ {symbol}
                 /\ notified' = notify(<<>>, "POSITION_UPDATE")
                 /\ published("POSITION_UPDATE")
            ELSE \* return
                 /\ notified' = <<>>
                 /\ unpublished("none")
                 /\ UNCHANGED <<positions, pending_positions_update>>
       ELSE /\ positions' = DictSet(positions, symbol, new_position)
            /\ pending_positions_update' = pending_positions_update \ {symbol}
            /\ notified' = notify(<<>>, "POSITION_UPDATE")
            /\ published("POSITION_UPDATE")
    /\ last_call' = Call("update_positions", symbol, new_position, NoOrder, NoAccount,
                        symbol \in DOMAIN positions)
    /\ UNCHANGED <<active_orders, account>>
    /\ UNCHANGED <<order_vars, contract_vars, clock_vars, manager_vars>>

\* an update_orders whose fill forgets the pending marker
update_orders_unmarked(order) ==
    /\ om_pc = "idle"
    /\ order.orderId \in DOMAIN active_orders =>
           order.symbol = active_orders[order.orderId].symbol
    /\ IF order.status \in {"Cancelled", "Filled"}
       THEN IF order.orderId \in DOMAIN active_orders
            THEN active_orders' = DictDel(active_orders, order.orderId)
            ELSE UNCHANGED active_orders
       ELSE active_orders' = DictSet(active_orders, order.orderId, order)
    /\ notified' = notify(<<>>, "ORDER_UPDATE")
    /\ published("ORDER_UPDATE")
    /\ last_call' = Call("update_orders", order.symbol, NoPosition, order, NoAccount,
                        order.orderId \in DOMAIN active_orders)
    /\ UNCHANGED <<positions, account, pending_positions_update>>
    /\ UNCHANGED <<order_vars, contract_vars, clock_vars, manager_vars>>

\* an update_orders that notifies only when it took a branch
update_orders_quiet(order) ==
    /\ om_pc = "idle"
    /\ order.orderId \in DOMAIN active_orders =>
           order.symbol = active_orders[order.orderId].symbol
    /\ IF order.status = "Cancelled" /\ order.orderId \in DOMAIN active_orders
       THEN /\ active_orders' = DictDel(active_orders, order.orderId)
            /\ notified' = notify(<<>>, "ORDER_UPDATE")
            /\ published("ORDER_UPDATE")
            /\ UNCHANGED pending_positions_update
       ELSE IF order.status = "Filled" /\ order.orderId \in DOMAIN active_orders
       THEN /\ pending_positions_update' = pending_positions_update \cup {order.symbol}
            /\ active_orders' = DictDel(active_orders, order.orderId)
            /\ notified' = notify(<<>>, "ORDER_UPDATE")
            /\ published("ORDER_UPDATE")
       ELSE IF order.status # "Cancelled" /\ order.status # "Filled"
       THEN /\ active_orders' = DictSet(active_orders, order.orderId, order)
            /\ notified' = notify(<<>>, "ORDER_UPDATE")
            /\ published("ORDER_UPDATE")
            /\ UNCHANGED pending_positions_update
       ELSE /\ notified' = <<>>
            /\ unpublished("none")
            /\ UNCHANGED <<active_orders, pending_positions_update>>
    /\ last_call' = Call("update_orders", order.symbol, NoPosition, order, NoAccount,
                        order.orderId \in DOMAIN active_orders)
    /\ UNCHANGED <<positions, account>>
    /\ UNCHANGED <<order_vars, contract_vars, clock_vars, manager_vars>>

\* an update_orders that stores every order it does not remove
update_orders_store_all(order) ==
    /\ om_pc = "idle"
    /\ order.orderId \in DOMAIN active_orders =>
           order.symbol = active_orders[order.orderId].symbol
    /\ IF order.status = "Cancelled" /\ order.orderId \in DOMAIN active_orders
       THEN /\ active_orders' = DictDel(active_orders, order.orderId)
            /\ UNCHANGED pending_positions_update
       ELSE IF order.status = "Filled" /\ order.orderId \in DOMAIN active_orders
       THEN /\ pending_positions_update' = pending_positions_update \cup {order.symbol}
            /\ active_orders' = DictDel(active_orders, order.orderId)
       ELSE /\ active_orders' = DictSet(active_orders, order.orderId, order)
            /\ UNCHANGED pending_positions_update
    /\ notified' = notify(<<>>, "ORDER_UPDATE")
    /\ published("ORDER_UPDATE")
    /\ last_call' = Call("update_orders", order.symbol, NoPosition, order, NoAccount,
                        order.orderId \in DOMAIN active_orders)
    /\ UNCHANGED <<positions, account>>
    /\ UNCHANGED <<order_vars, contract_vars, clock_vars, manager_vars>>

\* an update_orders that marks the instrument of every fill pending
update_orders_mark_any(order) ==
    /\ om_pc = "idle"
    /\ order.orderId \in DOMAIN active_orders =>
           order.symbol = active_orders[order.orderId].symbol
    /\ IF order.status = "Cancelled" /\ order.orderId \in DOMAIN active_orders
       THEN /\ active_orders' = DictDel(active_orders, order.orderId)
            /\ UNCHANGED pending_positions_update
       ELSE IF order.status = "Filled"
       THEN /\ pending_positions_update' = pending_positions_update \cup {order.symbol}
            /\ active_orders' = DictDel(active_orders, order.orderId)
       ELSE IF order.status # "Cancelled" /\ order.status # "Filled"
       THEN \* insert, or dict.update of the stored order with every field
            /\ active_orders' = DictSet(active_orders, order.orderId, order)
            /\ UNCHANGED pending_positions_update
       ELSE UNCHANGED <<active_orders, pending_positions_update>>
    /\ notified' = notify(<<>>, "ORDER_UPDATE")
    /\ published("ORDER_UPDATE")
    /\ last_call' = Call("update_orders", order.symbol, NoPosition, order, NoAccount,
                        order.orderId \in DOMAIN active_orders)
    /\ UNCHANGED <<positions, account>>
    /\ UNCHANGED <<order_vars, contract_vars, clock_vars, manager_vars>>

\* PortfolioServer.update_orders(order); the broker reports an order id that is
\* active with the symbol the order was placed for
update_orders(order) ==
    /\ om_pc = "idle"
    /\ order.orderId \in DOMAIN active_orders =>
           order.symbol = active_orders[order.orderId].symbol
    /\ IF order.status = "Cancelled" /\ order.orderId \in DOMAIN active_orders
       THEN /\ active_orders' = DictDel(active_orders, order.orderId)
            /\ UNCHANGED pending_positions_update
       ELSE IF order.status = "Filled" /\ order.orderId \in DOMAIN active_orders
       THEN /\ pending_positions_update' = pending_positions_update \cup {order.symbol}
            /\ active_orders' = DictDel(active_orders, order.orderId)
       ELSE IF order.status # "Cancelled" /\ order.status # "Filled"
       THEN \* insert, or dict.update of the stored order with every field
            /\ active_orders' = DictSet(active_orders, order.orderId, order)
            /\ UNCHANGED pending_positions_update
       ELSE UNCHANGED <<active_orders, pending_positions_update>>
    /\ notified' = notify(<<>>, "ORDER_UPDATE")
    /\ published("ORDER_UPDATE")
    /\ last_call' = Call("update_orders", order.symbol, NoPosition, order, NoAccount,
                        order.orderId \in DOMAIN active_orders)
    /\ UNCHANGED <<positions, account>>
    /\ UNCHANGED <<order_vars, contract_vars, clock_vars, manager_vars>>

\* PortfolioServer.update_account_details(account_details): the snapshot is
\* stored, then EventType.ACCOUNT_DETAIL_UPDATE is looked up for the notify
update_account_details(account_details) ==
    /\ om_pc = "idle"
    /\ account' = account_details
    /\ IF "ACCOUNT_DETAIL_UPDATE" \in EventType
       THEN /\ notified' = notify(<<>>, "ACCOUNT_DETAIL_UPDATE")
            /\ published("ACCOUNT_DETAIL_UPDATE")
       ELSE \* EventType has no member of that name: AttributeError
            /\ notified' = <<>>
            /\ unpublished("AttributeError")
    /\ last_call' = Call("update_account_details", "", NoPosition, NoOrder, account_details,
                        FALSE)
    /\ UNCHANGED <<positions, active_orders, pending_positions_update>>
    /\ UNCHANGED <<order_vars, contract_vars, clock_vars, manager_vars>>

\* PortfolioServer.__init__
InitPortfolioServer ==
    /\ positions = [s \in {} |-> NoPosition]
    /\ active_orders = [i \in {} |-> NoOrder]
    /\ pending_positions_update = {}
    /\ account = NoAccount
    /\ last_call = NoCall
    /\ notified = <<>>

(***************************************************************************)
(* Orders (midas/shared/orders.py)                                         *)
(***************************************************************************)
\* limit and stop prices are -1..MaxPrice
MaxPrice == 2

Actions == {"LONG", "COVER", "SHORT", "SELL"}

\* class OrderType(Enum)
OrderType == {"MKT", "LMT", "STP"}

Abs(x) == IF x < 0 THEN 0 - x ELSE x

\* Action.to_broker_standard
to_broker_standard(action) ==
    IF action \in {"LONG", "COVER"} THEN "BUY" ELSE "SELL"

\* the constructor raised: error is the exception, and there is no order object
NoOrderBuilt(error) ==
    [error |-> error, action |-> "", orderType |-> "", totalQuantity |-> 0]

\* BaseOrder.__init__: error is the exception it raises, or "none"
BaseOrder(action, quantity, order_type) ==
    IF action \notin Actions \/ order_type \notin OrderType
    THEN NoOrderBuilt("TypeError")
    ELSE IF quantity = 0
    THEN NoOrderBuilt("ValueError")
    ELSE [error |-> "none", action |-> to_broker_standard(action),
          orderType |-> order_type, totalQuantity |-> Abs(quantity)]

\* MarketOrder.__init__
MarketOrder(action, quantity) == BaseOrder(action, quantity, "MKT")

\* a limit order that takes any limit price
LimitOrder_unchecked(action, quantity, limit_price) ==
    LET base == BaseOrder(action, quantity, "LMT")
    IN  IF base.error # "none" THEN base
        ELSE [error |-> "none", action |-> base.action, orderType |-> base.orderType,
              totalQuantity |-> base.totalQuantity, lmtPrice |-> limit_price]

\* LimitOrder.__init__
LimitOrder(action, quantity, limit_price) ==
    IF limit_price <= 0 THEN NoOrderBuilt("ValueError")
    ELSE LET base == BaseOrder(action, quantity, "LMT")
         IN  IF base.error # "none" THEN base
             ELSE [error |-> "none", action |-> base.action,
                   orderType |-> base.orderType,
                   totalQuantity |-> base.totalQuantity, lmtPrice |-> limit_price]

\* StopLoss.__init__
StopLoss(action, quantity, aux_price) ==
    IF aux_price <= 0 THEN NoOrderBuilt("ValueError")
    ELSE LET base == BaseOrder(action, quantity, "STP")
         IN  IF base.error # "none" THEN base
             ELSE [error |-> "none", action |-> base.action,
                   orderType |-> base.orderType,
                   totalQuantity |-> base.totalQuantity, auxPrice |-> aux_price]

\* a quantity accessor that forgets the sign
order_quantity_unsigned(order) == order.totalQuantity

\* BaseOrder.quantity: positive for BUY, negative for SELL
order_quantity(order) ==
    IF order.action = "BUY" THEN order.totalQuantity ELSE 0 - order.totalQuantity

\* what the constructors are called with: an Action or a plain string for the
\* action, a quantity of either sign, a price
ActionArguments == Actions \cup {"BUY"}

\* the call recorded in built
Built(kind, action, quantity, price, order) ==
    [kind |-> kind, action |-> action, quantity |-> quantity, price |-> price,
     order |-> order]

NoBuilt == Built("none", "", 0, 0, NoOrderBuilt("none"))

\* MarketOrder(action, quantity)
construct_market(action, quantity) ==
    /\ built' = Built("MKT", action, quantity, 0, MarketOrder(action, quantity))
    /\ UNCHANGED <<clock_vars, portfolio_vars, manager_vars, observer_vars, contract_vars>>

\* LimitOrder(action, quantity, limit_price)
construct_limit(action, quantity, limit_price) ==
    /\ built' = Built("LMT", action, quantity, limit_price,
                      LimitOrder(action, quantity, limit_price))
    /\ UNCHANGED <<clock_vars, portfolio_vars, manager_vars, observer_vars, contract_vars>>

\* StopLoss(action, quantity, aux_price)
construct_stop(action, quantity, aux_price) ==
    /\ built' = Built("STP", action, quantity, aux_price,
                      StopLoss(action, quantity, aux_price))
    /\ UNCHANGED <<clock_vars, portfolio_vars, manager_vars, observer_vars, contract_vars>>

InitOrders == built = NoBuilt

(***************************************************************************)
(* What the OrderExecutionManager reads from its collaborators             *)
(***************************************************************************)
\* SignalInstruction.to_order for a market instruction
to_order(trade) == MarketOrder(trade.action, trade.quantity)

\* OrderBook.retrieve(instrument_id): the current price of the instrument
retrieve(instrument) == IF instrument = "AAPL" THEN 1 ELSE 2

\* Symbol.cost(quantity, price): the capital the quantity takes at the price
cost(quantity, price) == Abs(quantity) * price

\* SignalInstruction: the legs of a signal are numbered from 1
Legs == {1, 2}

InstructionsOfLeg(leg) ==
    [instrument : Symbols, action : Actions, quantity : 0..MaxQuantity,
     trade_id : {1}, leg_id : {leg}]

\* SignalEvent(timestamp, instructions), and an event of another class
SignalEvents ==
    {[is_signal_event |-> TRUE, timestamp |-> 1, instructions |-> <<a>>] :
        a \in InstructionsOfLeg(1)}
    \cup
    {[is_signal_event |-> TRUE, timestamp |-> 1, instructions |-> <<a, b>>] :
        a \in InstructionsOfLeg(1), b \in InstructionsOfLeg(2)}

NoSignalEvent == [is_signal_event |-> FALSE, timestamp |-> 0, instructions |-> <<>>]

\* the instructions of the signals of a trade, one of them possibly with a plain
\* string for its action
InstructionsOfTrade(trade_id, leg) ==
    [instrument : Symbols, action : ActionArguments, quantity : 0..MaxQuantity,
     trade_id : {trade_id}, leg_id : {leg}]

\* the signals of two trades, at two timestamps
SignalsOfTrade(timestamp, trade_id) ==
    {[is_signal_event |-> TRUE, timestamp |-> timestamp, instructions |-> <<a>>] :
        a \in InstructionsOfTrade(trade_id, 1)}
    \cup
    {[is_signal_event |-> TRUE, timestamp |-> timestamp, instructions |-> <<a, b>>] :
        a \in InstructionsOfTrade(trade_id, 1), b \in InstructionsOfTrade(trade_id, 2)}

TradeSignals == SignalsOfTrade(1, 2) \cup SignalsOfTrade(2, 1)

\* OrderEvent
OrderEvent(timestamp, trade_id, leg_id, action, contract, order) ==
    [timestamp |-> timestamp, trade_id |-> trade_id, leg_id |-> leg_id,
     action |-> action, contract |-> contract, order |-> order]

(***************************************************************************)
(* OrderExecutionManager                                                   *)
(***************************************************************************)
\* a _create_order that lets the exception of to_order through as it is
create_order_unwrapped(trade_instruction) ==
    LET order == to_order(trade_instruction)
    IN  [error |-> order.error, cause |-> "none", action |-> order.action,
         orderType |-> order.orderType, totalQuantity |-> order.totalQuantity]

\* _create_order: a ValueError or TypeError of to_order becomes a RuntimeError
\* raised from it
create_order(trade_instruction) ==
    LET order == to_order(trade_instruction)
    IN  IF order.error = "none"
        THEN order
        ELSE [error |-> "RuntimeError", cause |-> order.error, action |-> order.action,
              orderType |-> order.orderType, totalQuantity |-> order.totalQuantity]

\* the first loop of _handle_signal: order_details of every instruction
order_details(timestamp, trade) ==
    LET order == create_order(trade)
    IN  [timestamp |-> timestamp, trade_id |-> trade.trade_id, leg_id |-> trade.leg_id,
         action |-> trade.action, contract |-> trade.instrument, order |-> order,
         order_cost |-> IF order.error = "none"
                        THEN cost(order_quantity(order), retrieve(trade.instrument))
                        ELSE 0]

RECURSIVE SumCost(_)
\* total_capital_required after the first loop
SumCost(orders) ==
    IF orders = <<>> THEN 0 ELSE orders[1].order_cost + SumCost(Tail(orders))

\* a manager that books the capital of the orders it published
account_booked(log) ==
    IF log # <<>> /\ account # NoAccount THEN [capital |-> 0] ELSE account

\* self.account of the PortfolioServer as an iteration of the second loop finds
\* it: notify runs the handler of the observer inside _set_order, so once an
\* order was published the observer has made its update_account_details call
account_seen(log) ==
    IF log # <<>> /\ observer_updates # NoAccount THEN observer_updates ELSE account

\* PortfolioServer.capital
capital(log) == account_seen(log).capital

\* the exception the handler of the observer raises: the one of its
\* update_account_details call when it made one, else one of its own
handler_exception ==
    IF observer_updates # NoAccount /\ "ACCOUNT_DETAIL_UPDATE" \notin EventType
    THEN "AttributeError"
    ELSE "HandlerError"

\* an admission test that exempts nothing
admit_capital_only(action, total_capital_required, log) ==
    total_capital_required <= capital(log)

\* an admission test with a strict comparison
admit_strict(action, total_capital_required, log) ==
    action \in {"SELL", "COVER"} \/ total_capital_required < capital(log)

\* order["action"] in [Action.SELL, Action.COVER]
\*     or total_capital_required <= self.portfolio_server.capital
admit(action, total_capital_required, log) ==
    action \in {"SELL", "COVER"} \/ total_capital_required <= capital(log)

\* a _set_order that publishes the trade id and the leg id in each other's place
set_order_swapped(log, o) ==
    notify(log, OrderEvent(o.timestamp, o.leg_id, o.trade_id, o.action, o.contract, o.order))

\* _set_order: self.notify(EventType.ORDER_CREATED, order_event)
set_order(log, o) ==
    notify(log, OrderEvent(o.timestamp, o.trade_id, o.leg_id, o.action, o.contract, o.order))

\* the result of handle_event: the events published, the exception and its cause
Result(log, exception, cause) == [emitted |-> log, raised |-> exception, cause |-> cause]

RECURSIVE dispatch_orders_recomputed(_, _, _)
\* a second loop that takes the cost of a skipped order off the total
dispatch_orders_recomputed(orders, total_capital_required, log) ==
    IF orders = <<>> THEN Result(log, "none", "none")
    ELSE LET o == Head(orders)
         IN  IF ~(o.action \in {"SELL", "COVER"}) /\ account_seen(log) = NoAccount
             THEN Result(log, "AttributeError", "none")
             ELSE IF admit(o.action, total_capital_required, log)
             THEN IF observer_fails
                  THEN Result(set_order(log, o), "RuntimeError", handler_exception)
                  ELSE dispatch_orders_recomputed(Tail(orders), total_capital_required,
                                                  set_order(log, o))
             ELSE dispatch_orders_recomputed(Tail(orders),
                                             total_capital_required - o.order_cost, log)

RECURSIVE dispatch_orders(_, _, _)
\* the second loop of _handle_signal; reading capital without an account snapshot
\* raises AttributeError, after the orders before it were published; an exception
\* of the observer in notify leaves _set_order as a RuntimeError; the capital is
\* read again for every order
dispatch_orders(orders, total_capital_required, log) ==
    IF orders = <<>> THEN Result(log, "none", "none")
    ELSE LET o == Head(orders)
         IN  IF ~(o.action \in {"SELL", "COVER"}) /\ account_seen(log) = NoAccount
             THEN Result(log, "AttributeError", "none")
             ELSE IF admit(o.action, total_capital_required, log)
             THEN IF observer_fails
                  THEN Result(set_order(log, o), "RuntimeError", handler_exception)
                  ELSE dispatch_orders(Tail(orders), total_capital_required,
                                       set_order(log, o))
             ELSE dispatch_orders(Tail(orders), total_capital_required, log)

\* a _handle_signal with one loop, which dispatches each order as it is created
handle_signal_interleaved(timestamp, trade_instructions) ==
    LET orders == [i \in 1..Len(trade_instructions) |->
                      order_details(timestamp, trade_instructions[i])]
        failed == {i \in 1..Len(orders) : orders[i].order.error # "none"}
        first == IF failed = {} THEN Len(orders) + 1
                 ELSE CHOOSE i \in failed : \A j \in failed : i <= j
        created == SubSeq(orders, 1, first - 1)
        result == dispatch_orders(created, SumCost(created), <<>>)
    IN  IF failed # {} /\ result.raised = "none"
        THEN Result(result.emitted, orders[first].order.error, orders[first].order.cause)
        ELSE result

\* _handle_signal(timestamp, trade_instructions): the first loop ends with the
\* exception of the first instruction that does not convert
handle_signal(timestamp, trade_instructions) ==
    LET orders == [i \in 1..Len(trade_instructions) |->
                      order_details(timestamp, trade_instructions[i])]
        failed == {i \in 1..Len(orders) : orders[i].order.error # "none"}
    IN  IF failed # {}
        THEN LET first == CHOOSE i \in failed : \A j \in failed : i <= j
             IN  Result(<<>>, orders[first].order.error, orders[first].order.cause)
        ELSE dispatch_orders(orders, SumCost(orders), <<>>)

\* a conflict test that asks for every instruction to be blocked
has_conflict_all(trade_instructions, active_orders_tickers) ==
    \A i \in 1..Len(trade_instructions) :
        trade_instructions[i].instrument \in Range(active_orders_tickers)

\* any(trade.instrument in active_orders_tickers for trade in trade_instructions)
has_conflict(trade_instructions, active_orders_tickers) ==
    \E i \in 1..Len(trade_instructions) :
        trade_instructions[i].instrument \in Range(active_orders_tickers)

\* a handle_event that takes the instructions of whatever event it is given
handle_event_unchecked(event) ==
    /\ om_pc = "idle"
    /\ LET result ==
              IF has_conflict(event.instructions, get_active_order_tickers)
              THEN Result(<<>>, "none", "none")
              ELSE handle_signal(event.timestamp, event.instructions)
       IN  /\ emitted' = result.emitted
           /\ raised' = result.raised
           /\ raised_cause' = result.cause
           /\ account' = account_seen(result.emitted)
    /\ event_arg' = event
    /\ om_pc' = "handled"
    /\ last_call' = Call("handle_event", "", NoPosition, NoOrder, NoAccount, TRUE)
    /\ notified' = <<>>
    /\ unpublished("none")
    /\ UNCHANGED <<observer_fails, observer_updates>>
    /\ UNCHANGED <<positions, active_orders, pending_positions_update>>
    /\ UNCHANGED <<order_vars, contract_vars, clock_vars>>

\* OrderExecutionManager.handle_event(subject, EventType.SIGNAL, event); present
\* of the recorded call: get_active_order_tickers was called
handle_event(event) ==
    /\ om_pc = "idle"
    /\ LET result ==
              IF ~event.is_signal_event
              THEN Result(<<>>, "TypeError", "none")
              ELSE IF has_conflict(event.instructions, get_active_order_tickers)
              THEN Result(<<>>, "none", "none")
              ELSE handle_signal(event.timestamp, event.instructions)
       IN  /\ emitted' = result.emitted
           /\ raised' = result.raised
           /\ raised_cause' = result.cause
           /\ account' = account_seen(result.emitted)
    /\ event_arg' = event
    /\ om_pc' = "handled"
    /\ last_call' = Call("handle_event", "", NoPosition, NoOrder, NoAccount,
                        event.is_signal_event)
    /\ notified' = <<>>
    /\ unpublished("none")
    /\ UNCHANGED <<observer_fails, observer_updates>>
    /\ UNCHANGED <<positions, active_orders, pending_positions_update>>
    /\ UNCHANGED <<order_vars, contract_vars, clock_vars>>

\* the call returns, or its exception reaches the caller
handle_event_return ==
    /\ om_pc = "handled"
    /\ om_pc' = "idle"
    /\ event_arg' = NoSignalEvent
    /\ emitted' = <<>>
    /\ raised' = "none"
    /\ raised_cause' = "none"
    /\ UNCHANGED <<observer_fails, observer_updates>>
    /\ UNCHANGED <<order_vars, contract_vars, clock_vars, portfolio_vars, observer_vars>>

(***************************************************************************)
(* ContractManager (gateways/live/contract_manager.py), as its tests use it *)
(***************************************************************************)
\* reqContractDetails requests are numbered up to MaxRequests
MaxRequests == 3

\* the symbols of the contracts that are validated
ContractSymbols == Symbols \cup {"HEJ4"}

\* Contract, with its symbol
Contract(symbol) == [symbol |-> symbol]

\* the call recorded in contract_call: response is what it returned, raised the
\* exception it ended with instead
ContractCall(symbol, response, exception) ==
    [op |-> "validate_contract", symbol |-> symbol, response |-> response,
     raised |-> exception]

NoContractCall == [op |-> "none", symbol |-> "", response |-> FALSE, raised |-> "none"]

\* ContractManager._is_contract_validated(contract)
is_contract_validated(symbol) == symbol \in DOMAIN validated_contracts

\* a validate_contract that keeps the contract whatever the broker answered
validate_contract_keeps_all(symbol, is_contract, details_found) ==
    /\ ~is_contract \/ is_contract_validated(symbol) \/ request_count < MaxRequests
    /\ IF ~is_contract
       THEN /\ contract_call' = ContractCall(symbol, FALSE, "ValueError")
            /\ UNCHANGED <<validated_contracts, validate_contract_event,
                           is_valid_contract, request_count>>
       ELSE IF is_contract_validated(symbol)
       THEN /\ contract_call' = ContractCall(symbol, TRUE, "none")
            /\ UNCHANGED <<validated_contracts, validate_contract_event,
                           is_valid_contract, request_count>>
       ELSE /\ request_count' = request_count + 1
            /\ is_valid_contract' = details_found
            /\ validate_contract_event' = TRUE
            /\ validated_contracts' = DictSet(validated_contracts, symbol, Contract(symbol))
            /\ contract_call' = ContractCall(symbol, details_found, "none")
    /\ UNCHANGED <<clock_vars, portfolio_vars, manager_vars, observer_vars, order_vars>>

\* ContractManager.validate_contract(contract): an argument that is no Contract
\* raises ValueError; a contract in validated_contracts returns True; for any
\* other, reqContractDetails is called, whose callback sets is_valid_contract and
\* the event the call waits for
validate_contract(symbol, is_contract, details_found) ==
    /\ ~is_contract \/ is_contract_validated(symbol) \/ request_count < MaxRequests
    /\ IF ~is_contract
       THEN /\ contract_call' = ContractCall(symbol, FALSE, "ValueError")
            /\ UNCHANGED <<validated_contracts, validate_contract_event,
                           is_valid_contract, request_count>>
       ELSE IF is_contract_validated(symbol)
       THEN /\ contract_call' = ContractCall(symbol, TRUE, "none")
            /\ UNCHANGED <<validated_contracts, validate_contract_event,
                           is_valid_contract, request_count>>
       ELSE /\ request_count' = request_count + 1
            /\ is_valid_contract' = details_found
            /\ validate_contract_event' = TRUE
            /\ validated_contracts' =
                  IF details_found
                  THEN DictSet(validated_contracts, symbol, Contract(symbol))
                  ELSE validated_contracts
            /\ contract_call' = ContractCall(symbol, details_found, "none")
    /\ UNCHANGED <<clock_vars, portfolio_vars, manager_vars, observer_vars, order_vars>>

\* ContractManager.__init__, and the fresh threading.Event of the client
InitContractManager ==
    /\ validated_contracts = [c \in {} |-> Contract("")]
    /\ validate_contract_event = FALSE
    /\ is_valid_contract = FALSE
    /\ request_count = 0
    /\ contract_call = NoContractCall

(***************************************************************************)
(* DataClient.__init__                                                     *)
(***************************************************************************)
InitDataClient ==
    /\ data = <<>>
    /\ unique_timestamps = <<>>
    /\ next_date = NoDate
    /\ current_date_index = 0
    /\ current_day = NoDay
    /\ eod_event_flag = TRUE
    /\ event_queue = <<>>
    /\ clock_pc = "new"
    /\ returned = "none"
    /\ handling = NoEvent
    /\ put_log = <<>>
    /\ out_of_order = FALSE
    /\ returned_early = FALSE

NextClock ==
    \/ clock_pc = "new" /\ \E response \in Responses : get_data(response)
    \/ data_stream
    \/ process_eod
    \/ wait_test
    \/ wait_poll
    \/ set_market_data
    \/ consumer_get
    \/ consumer_done

\* the observer attached to the manager for ORDER_CREATED starts or stops raising
set_observer(fails) ==
    /\ om_pc = "idle"
    /\ observer_fails' = fails
    /\ UNCHANGED <<om_pc, event_arg, emitted, raised, raised_cause, observer_updates>>
    /\ UNCHANGED <<order_vars, contract_vars, clock_vars, portfolio_vars, observer_vars>>

\* the observer attached to the manager for ORDER_CREATED is one that calls
\* update_account_details(account_details) in its handler, or one that does not
set_observer_updates(account_details) ==
    /\ om_pc = "idle"
    /\ observer_updates' = account_details
    /\ UNCHANGED <<om_pc, event_arg, emitted, raised, raised_cause, observer_fails>>
    /\ UNCHANGED <<order_vars, contract_vars, clock_vars, portfolio_vars, observer_vars>>

\* OrderExecutionManager.__init__
InitOrderManager ==
    /\ om_pc = "idle"
    /\ event_arg = NoSignalEvent
    /\ emitted = <<>>
    /\ raised = "none"
    /\ raised_cause = "none"
    /\ observer_fails = FALSE
    /\ observer_updates = NoAccount

Init ==
    /\ InitDataClient
    /\ InitPortfolioServer
    /\ InitOrderManager
    /\ InitSubject
    /\ InitOrders
    /\ InitContractManager

SpecClock == Init /\ [][NextClock]_vars

\* the driver keeps calling data_stream, every step of a call is taken in the
\* end (wait has a timeout), and the consumer takes and handles what is on the
\* queue
\* the responses of the database for one instrument
ReplayResponses ==
    UNION {[1..n -> [timestamp : 0..MaxTs, symbol : {"AAPL"}]] : n \in 1..MaxRows}

NextReplay ==
    \/ clock_pc = "new" /\ \E response \in ReplayResponses : get_data(response)
    \/ data_stream
    \/ process_eod
    \/ wait_test
    \/ wait_poll
    \/ set_market_data
    \/ consumer_get
    \/ consumer_done

FairClock ==
    /\ WF_vars(data_stream)
    /\ WF_vars(process_eod)
    /\ WF_vars(wait_test)
    /\ WF_vars(wait_poll)
    /\ WF_vars(set_market_data)
    /\ WF_vars(consumer_get)
    /\ WF_vars(consumer_done)

SpecClockFair == Init /\ [][NextReplay]_vars /\ FairClock

\* the calls the broker layer makes on the PortfolioServer
NextPortfolio ==
    \/ \E symbol \in Symbols : \E new_position \in Positions :
          update_positions(symbol, new_position)
    \/ \E order \in Orders : update_orders(order)
    \/ \E account_details \in Accounts : update_account_details(account_details)

SpecPortfolio == Init /\ [][NextPortfolio]_vars

\* what the broker layer reports while signals are handled: one order in flight,
\* flat or unit positions
OrdersInFlight == {o \in Orders : o.orderId = 1 /\ o.status # "PreSubmitted"}

PositionsReported == {p \in Positions : p.quantity \in {0, 1}}

\* the consumer thread dispatches signals and portfolio updates, one at a time
NextOrders ==
    \/ \E event \in SignalEvents \cup {NoSignalEvent} : handle_event(event)
    \/ handle_event_return
    \/ \E symbol \in Symbols : \E new_position \in PositionsReported :
          update_positions(symbol, new_position)
    \/ \E order \in OrdersInFlight : update_orders(order)
    \/ \E account_details \in Accounts : update_account_details(account_details)

SpecOrders == Init /\ [][NextOrders]_vars

\* the calls made on the PortfolioServer as a Subject, and the account updates
NextObserver ==
    \/ \E observer \in Observers : \E event_type \in ObservedTypes :
          attach(observer, event_type)
    \/ \E observer \in Observers : \E event_type \in ObservedTypes :
          detach(observer, event_type)
    \/ \E event_type \in ObservedTypes : \E failing \in SUBSET Observers :
          subject_notify(event_type, failing)
    \/ \E account_details \in Accounts : update_account_details(account_details)

SpecObserver == Init /\ [][NextObserver]_vars

\* the consumer thread dispatches the signals of two trades between account and
\* order updates, with an observer of the manager that may raise
NextSignals ==
    \/ \E event \in TradeSignals \cup {NoSignalEvent} : handle_event(event)
    \/ handle_event_return
    \/ \E fails \in BOOLEAN : set_observer(fails)
    \/ \E order \in OrdersInFlight : update_orders(order)
    \/ \E account_details \in Accounts : update_account_details(account_details)

SpecSignals == Init /\ [][NextSignals]_vars

\* observers that attach and detach, also from inside their handlers
NextMutation ==
    \/ \E observer \in Observers : \E event_type \in ObservedTypes :
          attach(observer, event_type)
    \/ \E observer \in Observers : \E event_type \in ObservedTypes :
          detach(observer, event_type)
    \/ \E event_type \in ObservedTypes : \E handler \in [Observers -> Handlers] :
          notify_mutating(event_type, handler)

SpecMutation == Init /\ [][NextMutation]_vars

\* signals handled while the observer of ORDER_CREATED calls back into the
\* PortfolioServer from its handler
NextReentrant ==
    \/ \E event \in SignalEvents : handle_event(event)
    \/ handle_event_return
    \/ \E fails \in BOOLEAN : set_observer(fails)
    \/ \E account_details \in Accounts \cup {NoAccount} :
          set_observer_updates(account_details)
    \/ \E account_details \in Accounts : update_account_details(account_details)

SpecReentrant == Init /\ [][NextReentrant]_vars

\* the order constructors, called with every combination of arguments
NextConstruct ==
    \/ \E action \in ActionArguments : \E quantity \in (0 - MaxQuantity)..MaxQuantity :
          construct_market(action, quantity)
    \/ \E action \in ActionArguments : \E quantity \in (0 - MaxQuantity)..MaxQuantity :
          \E limit_price \in (0 - 1)..MaxPrice :
             construct_limit(action, quantity, limit_price)
    \/ \E action \in ActionArguments : \E quantity \in (0 - MaxQuantity)..MaxQuantity :
          \E aux_price \in (0 - 1)..MaxPrice :
             construct_stop(action, quantity, aux_price)

SpecConstruct == Init /\ [][NextConstruct]_vars

\* the gateway validates contracts, the broker finds their details or not
NextContracts ==
    \E symbol \in ContractSymbols : \E is_contract \in BOOLEAN :
       \E details_found \in BOOLEAN :
          validate_contract(symbol, is_contract, details_found)

SpecContracts == Init /\ [][NextContracts]_vars

(***************************************************************************)
(* Properties of the clock                                                 *)
(***************************************************************************)
\* the calendar days the data set covers
DaysInData == {DayOf(data[i].timestamp) : i \in 1..Len(data)}

\* D1 < D2 are days of the data with no day of the data between them
ConsecutiveDays(D1, D2) ==
    /\ D1 \in DaysInData
    /\ D2 \in DaysInData
    /\ D1 < D2
    /\ ~ \E D \in DaysInData : D1 < D /\ D < D2

\* the places of put_log that hold EODEvent(day)
EodPuts(day) == {i \in 1..Len(put_log) : put_log[i] = EODEvent(day)}

\* the places of put_log that hold a market-data batch of the day
BatchPuts(day) ==
    {i \in 1..Len(put_log) : put_log[i].type = "MARKET_DATA"
                             /\ DayOf(put_log[i].timestamp) = day}

\* the day an event belongs to
EventDay(e) == IF e.type = "END-OF-DAY" THEN e.timestamp ELSE DayOf(e.timestamp)

\* the events put on the queue and not yet fully dispatched
Undispatched == Range(event_queue) \cup (IF handling = NoEvent THEN {} ELSE {handling})

\* C1: for consecutive days D1 < D2 of the data, EODEvent(D1) is never put twice,
\* every batch of day D2 is published after an EODEvent(D1) was put, and when the
\* replay is complete exactly one EODEvent(D1) has been put; whatever the order of
\* the rows and however often data_stream returned early from the flag wait.
C1_DayBoundaryOrdering ==
    \A D1 \in DaysInData : \A D2 \in DaysInData :
        ConsecutiveDays(D1, D2) =>
            /\ Cardinality(EodPuts(D1)) <= 1
            /\ \A b \in BatchPuts(D2) : \E e \in EodPuts(D1) : e < b
            /\ returned = "False" => Cardinality(EodPuts(D1)) = 1

\* a replay of rows that came out of calendar order, with an early return from
\* the flag wait, is complete over three days
C1_Witness ==
    /\ returned = "False"
    /\ out_of_order
    /\ returned_early
    /\ Cardinality(DaysInData) >= 3
    /\ \E D1 \in DaysInData : \E D2 \in DaysInData :
         /\ ConsecutiveDays(D1, D2)
         /\ BatchPuts(D2) # {}
         /\ Cardinality(EodPuts(D1)) = 1

\* C2: _set_market_data is never reached with the flag clear, and no batch has
\* been published for a later day than that of an event still to be dispatched
\* (on the queue or in the hands of the consumer).
C2_EodHandshake ==
    /\ clock_pc = "publish" => eod_event_flag
    /\ \A e \in Undispatched :
         \A i \in 1..Len(put_log) :
            put_log[i].type = "MARKET_DATA" => EventDay(put_log[i]) <= EventDay(e)

\* the clock is about to publish the first batch of a day whose predecessor's
\* EODEvent was put and dispatched
C2_Witness ==
    /\ clock_pc = "publish"
    /\ eod_event_flag
    /\ BatchPuts(DayOf(next_date)) = {}
    /\ \E D \in DaysInData : D < DayOf(next_date) /\ EodPuts(D) # {}
    /\ Undispatched = {}

(***************************************************************************)
(* Properties of the OrderExecutionManager                                 *)
(***************************************************************************)
\* the instruments with an active order
ActiveOrderSymbols == {active_orders[id].symbol : id \in DOMAIN active_orders}

\* the instruments with an active order or a pending position-update marker
BlockedSymbols == ActiveOrderSymbols \cup pending_positions_update

\* handle_event was called with a SignalEvent and has not returned yet; the
\* PortfolioServer is as it was when the call was made
HandledSignal == om_pc = "handled" /\ event_arg.is_signal_event

Instr == event_arg.instructions

Conflicting == \E i \in 1..Len(Instr) : Instr[i].instrument \in BlockedSymbols

WellFormed == \A i \in 1..Len(Instr) : Instr[i].quantity # 0

IsEntry(i) == Instr[i].action \in {"LONG", "SHORT"}

IsExit(i) == Instr[i].action \in {"SELL", "COVER"}

\* the ORDER_CREATED events published for instruction i
EmittedFor(i) ==
    {k \in 1..Len(emitted) : /\ emitted[k].leg_id = Instr[i].leg_id
                             /\ emitted[k].contract = Instr[i].instrument
                             /\ emitted[k].action = Instr[i].action}

\* the capital instruction i takes: its quantity at the current price
InstructionCost(i) == Instr[i].quantity * retrieve(Instr[i].instrument)

RECURSIVE CostOf(_)
CostOf(legs) ==
    IF legs = {} THEN 0
    ELSE LET i == CHOOSE j \in legs : TRUE
         IN  InstructionCost(i) + CostOf(legs \ {i})

EntryCost == CostOf({i \in 1..Len(Instr) : IsEntry(i)})

TotalCost == CostOf(1..Len(Instr))

\* C3: a signal with an instruction on an instrument that has an active order or a
\* pending marker publishes no ORDER_CREATED event at all and raises nothing.
C3_ConflictBlocking ==
    HandledSignal /\ Conflicting => emitted = <<>> /\ raised = "none"

\* a dropped signal one of whose instructions was eligible on its own
C3_Witness ==
    /\ HandledSignal
    /\ Conflicting
    /\ WellFormed
    /\ account # NoAccount
    /\ TotalCost <= account.capital
    /\ \E i \in 1..Len(Instr) : Instr[i].instrument \notin BlockedSymbols
    /\ emitted = <<>>

\* C4 as stated: with C the total cost of the entry instructions of a
\* non-conflicting signal (whose instructions all convert to orders) and K the
\* capital, C <= K admits every entry instruction and C > K admits none.
C4_EntryCostAdmission ==
    HandledSignal /\ ~Conflicting /\ WellFormed /\ account # NoAccount =>
        /\ EntryCost <= account.capital =>
              \A i \in 1..Len(Instr) : IsEntry(i) => Cardinality(EmittedFor(i)) = 1
        /\ EntryCost > account.capital =>
              \A i \in 1..Len(Instr) : IsEntry(i) => EmittedFor(i) = {}

\* C4 amended: with C the total cost of all the instructions of the signal, exits
\* included, C <= K admits every entry instruction, one ORDER_CREATED each, and
\* C > K admits no entry instruction.
C4_AdmissionConservation ==
    HandledSignal /\ ~Conflicting /\ WellFormed /\ account # NoAccount =>
        /\ TotalCost <= account.capital =>
              \A i \in 1..Len(Instr) : IsEntry(i) => Cardinality(EmittedFor(i)) = 1
        /\ TotalCost > account.capital =>
              \A i \in 1..Len(Instr) : IsEntry(i) => EmittedFor(i) = {}

\* two entry instructions that each fit the capital and together do not: none admitted
C4_Witness ==
    /\ HandledSignal
    /\ ~Conflicting
    /\ account # NoAccount
    /\ Len(Instr) = 2
    /\ \A i \in 1..2 : IsEntry(i) /\ 0 < InstructionCost(i)
                       /\ InstructionCost(i) <= account.capital
    /\ TotalCost > account.capital
    /\ emitted = <<>>
    /\ raised = "none"

C7_ActiveOrderTickers ==
    /\ Range(get_active_order_tickers) = BlockedSymbols
    /\ Len(get_active_order_tickers) = Cardinality(BlockedSymbols)
    /\ HandledSignal
         /\ (\E i \in 1..Len(Instr) : Instr[i].instrument \in pending_positions_update)
       => emitted = <<>>

\* the order on the instrument was filled, no position change has been applied, a
\* new order on it is open too, and a signal on the instrument was dropped
C7_Witness ==
    /\ HandledSignal
    /\ WellFormed
    /\ \E i \in 1..Len(Instr) :
         /\ Instr[i].instrument \in pending_positions_update
         /\ Instr[i].instrument \in ActiveOrderSymbols
         /\ Instr[i].instrument \notin DOMAIN positions
    /\ Len(get_active_order_tickers) = 1
    /\ emitted = <<>>

(***************************************************************************)
(* Properties of the PortfolioServer                                       *)
(***************************************************************************)
\* this step is a call of update_orders for an order id that is active
UpdatesActiveOrder ==
    /\ last_call'.op = "update_orders"
    /\ last_call'.order.orderId \in DOMAIN active_orders

\* C6 as stated: a fill of an active order removes it and marks its instrument
\* pending; a cancel of an active order removes it and leaves its instrument
\* without a pending marker.
C6_CancelLeavesNoMarker ==
    [][UpdatesActiveOrder =>
          /\ last_call'.order.status = "Filled" =>
                /\ last_call'.order.orderId \notin DOMAIN active_orders'
                /\ last_call'.order.symbol \in pending_positions_update'
          /\ last_call'.order.status = "Cancelled" =>
                /\ last_call'.order.orderId \notin DOMAIN active_orders'
                /\ last_call'.order.symbol \notin pending_positions_update'
      ]_vars

\* C6 amended: a fill of an active order removes it and marks its instrument
\* pending; a cancel of an active order removes it and changes no pending marker
\* (a marker left by the fill of another order on the instrument stays).
C6_OrderLifecycle ==
    [][UpdatesActiveOrder =>
          /\ last_call'.order.status = "Filled" =>
                /\ last_call'.order.orderId \notin DOMAIN active_orders'
                /\ last_call'.order.symbol \in pending_positions_update'
          /\ last_call'.order.status = "Cancelled" =>
                /\ last_call'.order.orderId \notin DOMAIN active_orders'
                /\ pending_positions_update' = pending_positions_update
      ]_vars

\* an order that was active has just been filled: gone, its instrument pending
C6_Witness ==
    /\ last_call.op = "update_orders"
    /\ last_call.present
    /\ last_call.order.status = "Filled"
    /\ last_call.order.orderId \notin DOMAIN active_orders
    /\ last_call.order.symbol \in pending_positions_update

\* C8: the second of two calls of update_positions in a row with the same
\* instrument and an equal position publishes nothing and changes nothing, and
\* the instrument has its one stored position afterwards.
C8_IdempotentUpdate ==
    [][(/\ last_call.op = "update_positions"
        /\ last_call'.op = "update_positions"
        /\ last_call'.symbol = last_call.symbol
        /\ last_call'.position = last_call.position)
       => /\ notified' = <<>>
          /\ positions' = positions
          /\ pending_positions_update' = pending_positions_update
          /\ last_call'.symbol \in DOMAIN positions'
      ]_vars

\* C9: update_positions with quantity 0 removes the stored position of the
\* instrument, and leaves the positions mapping as it is when there is none.
C9_ZeroQuantityRemoval ==
    [][(last_call'.op = "update_positions" /\ last_call'.position.quantity = 0)
       => IF last_call'.symbol \in DOMAIN positions
          THEN last_call'.symbol \notin DOMAIN positions'
          ELSE positions' = positions
      ]_vars

\* C10: no entry of the positions mapping has quantity 0.
C10_NoZeroPosition ==
    \A symbol \in DOMAIN positions : positions[symbol].quantity # 0

\* this step is a call of update_positions
UpdatesPosition == last_call'.op = "update_positions"

\* the stored state of the instrument of this update_positions call: its position,
\* or none
StoredPosition ==
    IF last_call'.symbol \in DOMAIN positions
    THEN positions[last_call'.symbol]
    ELSE NoPosition

\* C11: update_positions with a non-zero position that differs from the position
\* stored for the instrument leaves the incoming position stored for it.
C11_PositionReplaced ==
    [][(/\ UpdatesPosition
        /\ last_call'.symbol \in DOMAIN positions
        /\ last_call'.position.quantity # 0
        /\ last_call'.position # StoredPosition)
       => /\ last_call'.symbol \in DOMAIN positions'
          /\ positions'[last_call'.symbol] = last_call'.position
      ]_vars

\* the position of this update_positions call differs from the stored state: a new
\* position, a changed non-zero position, or the removal of a stored position
DiffersFromStored ==
    \/ last_call'.symbol \notin DOMAIN positions /\ last_call'.position.quantity # 0
    \/ /\ last_call'.symbol \in DOMAIN positions
       /\ last_call'.position # StoredPosition

\* C12: an update_positions call with a position that differs from the stored
\* state of the instrument clears the pending marker of the instrument and
\* publishes one POSITION_UPDATE notification.
C12_ChangeClearsMarker ==
    [][(UpdatesPosition /\ DiffersFromStored)
       => /\ last_call'.symbol \notin pending_positions_update'
          /\ notified' = <<"POSITION_UPDATE">>
      ]_vars

\* this step is a call of a PortfolioServer method that changes the positions, the
\* active orders, the pending markers or the account snapshot
MutatingCall ==
    /\ last_call'.op \in {"update_positions", "update_orders", "update_account_details"}
    /\ <<positions, active_orders, pending_positions_update, account>>'
          # <<positions, active_orders, pending_positions_update, account>>

\* C13: every call of update_positions, update_orders or update_account_details
\* that changes the state of the PortfolioServer passes exactly one notification
\* to notify, and ends without an exception.
C13_OneNotificationPerCall ==
    [][MutatingCall => Len(notified') = 1 /\ call_raised' = "none"]_vars

\* C14: every call of update_orders publishes exactly one ORDER_UPDATE
\* notification, whichever branch it takes and also when it takes none.
C14_OrderUpdateEveryCall ==
    last_call.op = "update_orders" =>
        notified = <<"ORDER_UPDATE">> /\ call_raised = "none"

\* a Filled or Cancelled status for an order id that was not active: nothing
\* changed for the id, and ORDER_UPDATE was published
C14_Witness ==
    /\ last_call.op = "update_orders"
    /\ last_call.order.status \in {"Filled", "Cancelled"}
    /\ ~last_call.present
    /\ active_orders # <<>>
    /\ notified = <<"ORDER_UPDATE">>

\* C15: after update_account_details the account snapshot is the given one, the
\* capital accessor returns its capital, and the call has published one
\* notification that reached the observers attached for ACCOUNT_UPDATE, in order.
C15_AccountUpdatePublished ==
    last_call.op = "update_account_details" =>
        /\ account = last_call.account
        /\ account.capital = last_call.account.capital
        /\ Len(notified) = 1
        /\ invoked = observers_of("ACCOUNT_UPDATE")
        /\ call_raised = "none"

\* this step is a call of update_orders that takes an order off active_orders
RemovesOrder ==
    /\ last_call'.op = "update_orders"
    /\ last_call'.order.orderId \in DOMAIN active_orders
    /\ last_call'.order.orderId \notin DOMAIN active_orders'

\* C16 as stated: whenever update_orders takes an order off active_orders, the
\* pending marker of the instrument of the order is set after the call.
C16_RemovalMarksPending ==
    [][RemovesOrder => last_call'.order.symbol \in pending_positions_update']_vars

\* C16 amended: whenever update_orders takes an order off active_orders because
\* it was filled, the pending marker of its instrument is set in the same call;
\* a cancel sets no marker; and a marker that is set goes only in a call of
\* update_positions for its instrument.
C16_FillMarksPending ==
    [][/\ (RemovesOrder /\ last_call'.order.status = "Filled")
             => last_call'.order.symbol \in pending_positions_update'
       /\ (RemovesOrder /\ last_call'.order.status = "Cancelled")
             => pending_positions_update' = pending_positions_update
       /\ \A symbol \in pending_positions_update :
             symbol \notin pending_positions_update'
                => UpdatesPosition /\ last_call'.symbol = symbol
      ]_vars

\* the marker a fill left on one instrument is still set after a position update
\* for the other instrument was applied
C16_Witness ==
    /\ last_call.op = "update_positions"
    /\ notified = <<"POSITION_UPDATE">>
    /\ pending_positions_update # {}
    /\ last_call.symbol \notin pending_positions_update
    /\ active_orders = <<>>

(***************************************************************************)
(* Properties of the Subject                                               *)
(***************************************************************************)
\* the list of the event type after the step
observers_after(event_type) ==
    IF event_type \in DOMAIN observers' THEN observers'[event_type] ELSE <<>>

\* this step is a call of Subject.notify / attach / detach
NotifyStep == subject_call'.op = "notify"

AttachStep == subject_call'.op = "attach"

DetachStep == subject_call'.op = "detach"

\* the list notify goes through in this step
Notified == observers_of(subject_call'.event_type)

\* an observer of that list raises in its handler
HandlerFails == \E i \in 1..Len(Notified) : Notified[i] \in subject_call'.failing

\* the place of the first observer of the list whose handler raises
FirstFailing ==
    CHOOSE i \in 1..Len(Notified) :
        /\ Notified[i] \in subject_call'.failing
        /\ \A j \in 1..(i - 1) : Notified[j] \notin subject_call'.failing

\* C17: attach puts the observer at the end of the list of its event type and
\* touches no other list; a notify whose handlers return invokes exactly the
\* observers of the list of its event type, in the order of the list, and invokes
\* nothing when the event type has no list.
C17_NotifyInAttachmentOrder ==
    [][/\ AttachStep =>
             /\ observers_after(subject_call'.event_type)
                   = Append(observers_of(subject_call'.event_type), subject_call'.observer)
             /\ \A t \in EventType \ {subject_call'.event_type} :
                   observers_after(t) = observers_of(t)
       /\ (NotifyStep /\ ~HandlerFails) =>
             /\ invoked' = Notified
             /\ call_raised' = "none"
       /\ (NotifyStep /\ subject_call'.event_type \notin DOMAIN observers) =>
             invoked' = <<>>
      ]_vars

\* two observers attached for one event type were invoked in the order of their
\* attachment, while the other event type has an observer of its own
C17_Witness ==
    /\ subject_call.op = "notify"
    /\ call_raised = "none"
    /\ Len(invoked) = 2
    /\ invoked[1] # invoked[2]
    /\ invoked = observers_of(subject_call.event_type)
    /\ \E t \in ObservedTypes \ {subject_call.event_type} :
         /\ observers_of(t) # <<>>
         /\ observers_of(t) # invoked

\* C18: per event type and observer, attach adds one occurrence, detach takes one
\* occurrence away when there is one and changes nothing when there is none, and a
\* notify whose handlers return invokes the observer once per occurrence.
C18_MultisetRegistry ==
    [][/\ AttachStep =>
             \A t \in EventType : \A o \in Observers :
                count(observers_after(t), o)
                   = count(observers_of(t), o)
                     + (IF t = subject_call'.event_type /\ o = subject_call'.observer
                        THEN 1 ELSE 0)
       /\ DetachStep =>
             /\ \A t \in EventType : \A o \in Observers :
                   count(observers_after(t), o)
                      = count(observers_of(t), o)
                        - (IF /\ t = subject_call'.event_type
                              /\ o = subject_call'.observer
                              /\ count(observers_of(t), o) > 0
                           THEN 1 ELSE 0)
             /\ count(observers_of(subject_call'.event_type), subject_call'.observer) = 0
                   => observers' = observers
       /\ (NotifyStep /\ ~HandlerFails) =>
             \A o \in Observers : count(invoked', o) = count(Notified, o)
      ]_vars

\* an observer that was attached twice for an event type has been detached once
\* and is still on the list
C18_Witness ==
    /\ subject_call.op = "detach"
    /\ count(observers_of(subject_call.event_type), subject_call.observer) = 1

\* C19: when the handler of an observer raises during notify, the exception
\* reaches the caller, the observers after it on the list are not invoked, and the
\* lists are as they were.
C19_HandlerExceptionPropagates ==
    [][(NotifyStep /\ HandlerFails) =>
          /\ call_raised' = "HandlerError"
          /\ invoked' = SubSeq(Notified, 1, FirstFailing)
          /\ observers' = observers
      ]_vars

\* the first of two observers raised and the second was not invoked
C19_Witness ==
    /\ subject_call.op = "notify"
    /\ call_raised = "HandlerError"
    /\ Len(invoked) = 1
    /\ Len(observers_of(subject_call.event_type)) = 2

(***************************************************************************)
(* Exhaustion of the clock                                                 *)
(***************************************************************************)
\* the cursor is before the end of the distinct timestamps
MoreData == current_date_index < Len(unique_timestamps)

\* C20: a data_stream call made with the cursor before the end does not return
\* False, and True is returned only with the cursor before the end; a call made
\* with the cursor at the end returns False at once; after a False every call
\* returns False, puts no event, publishes no data and leaves the clock as it is.
C20_ExhaustionIsPermanent ==
    [][/\ (clock_pc = "idle" /\ returned' # returned) =>
             returned' = (IF MoreData THEN "running" ELSE "False")
       /\ returned = "running" => returned' \in {"running", "True"}
       /\ (returned' = "True" /\ returned # "True") => MoreData
       /\ returned = "False" =>
             /\ returned' = "False"
             /\ put_log' = put_log
             /\ UNCHANGED <<data, unique_timestamps, next_date, current_date_index,
                            current_day, clock_pc>>
      ]_vars

\* the clock is exhausted after a replay of several timestamps, and the consumer
\* still has events to dispatch
C20_Witness ==
    /\ returned = "False"
    /\ current_date_index = Len(unique_timestamps)
    /\ Len(unique_timestamps) >= 2
    /\ handling # NoEvent
    /\ event_queue # <<>>

(***************************************************************************)
(* End-of-day events, the flag wait and the batches of the clock           *)
(***************************************************************************)
\* the places of put_log that hold an EODEvent
AllEodPuts == {i \in 1..Len(put_log) : put_log[i].type = "END-OF-DAY"}

\* the last calendar day of the data
LastDay == CHOOSE D \in DaysInData : \A E \in DaysInData : E <= D

\* C21: an EODEvent is put only for a day of the data that a later day follows,
\* at most once per day and never for the last day; nothing is put before the
\* first batch; and when the replay of data covering k days is complete exactly
\* k - 1 EODEvents have been put.
C21_EodPerDayTransition ==
    /\ \A i \in AllEodPuts :
          /\ put_log[i].timestamp \in DaysInData
          /\ put_log[i].timestamp # LastDay
          /\ \E b \in 1..(i - 1) : put_log[b].type = "MARKET_DATA"
    /\ \A D \in DaysInData : Cardinality(EodPuts(D)) <= 1
    /\ returned = "False" => Cardinality(AllEodPuts) = Cardinality(DaysInData) - 1

\* a complete replay over three days has put two EODEvents
C21_Witness ==
    /\ returned = "False"
    /\ Cardinality(DaysInData) = 3
    /\ Cardinality(AllEodPuts) = 2
    /\ EodPuts(LastDay) = {}

\* an EODEvent is on the queue or in the hands of the consumer
EodUndispatched == \E e \in Undispatched : e.type = "END-OF-DAY"

\* C22: while the clock waits with the flag clear there is an EODEvent still to
\* be dispatched, whose dispatch sets the flag; a poll that finds the queue
\* non-empty makes data_stream return True, and that return publishes nothing and
\* leaves the cursor where it is; a poll that finds it empty goes back to the test
\* of the flag.
C22_BoundedWait ==
    [][/\ (clock_pc \in {"wait", "poll"} /\ ~eod_event_flag) => EodUndispatched
       /\ (clock_pc = "poll" /\ clock_pc' # "poll") =>
             /\ clock_pc' = (IF event_queue # <<>> THEN "idle" ELSE "wait")
             /\ event_queue # <<>> => returned' = "True"
             /\ put_log' = put_log
             /\ current_date_index' = current_date_index
      ]_vars

\* data_stream has returned True from the wait with the EODEvent it put still on
\* the queue and the batch of the new day unpublished
C22_Witness ==
    /\ returned_early
    /\ returned = "True"
    /\ clock_pc = "idle"
    /\ ~eod_event_flag
    /\ event_queue # <<>>
    /\ Head(event_queue).type = "END-OF-DAY"
    /\ BatchPuts(current_day) = {}

\* the timestamps of the batches published, in the order of publication
PublishedTimestamps ==
    LET batches == SelectSeq(put_log, LAMBDA e : e.type = "MARKET_DATA")
    IN  [i \in 1..Len(batches) |-> batches[i].timestamp]

\* the instruments of the rows of the data with the timestamp
SymbolsAt(ts) == {data[i].symbol : i \in {j \in 1..Len(data) : data[j].timestamp = ts}}

\* C23: the batches published so far are those of the first current_date_index
\* distinct timestamps of the data, each once and in strictly ascending order,
\* each with the instruments of all the rows of its timestamp; the cursor moves
\* by one step when a batch is published and not otherwise; and a complete replay
\* has published every distinct timestamp of the data.
C23_ExactlyOncePublication ==
    [][/\ Len(PublishedTimestamps) = current_date_index
       /\ \A i \in 1..Len(PublishedTimestamps) :
             /\ PublishedTimestamps[i] = unique_timestamps[i]
             /\ \A j \in 1..(i - 1) : PublishedTimestamps[j] < PublishedTimestamps[i]
       /\ \A i \in 1..Len(put_log) :
             put_log[i].type = "MARKET_DATA" =>
                put_log[i].tickers = SymbolsAt(put_log[i].timestamp)
       /\ current_date_index' =
             current_date_index + Len(PublishedTimestamps') - Len(PublishedTimestamps)
       /\ Len(PublishedTimestamps') - Len(PublishedTimestamps) \in {0, 1}
       /\ returned = "False" =>
             Range(PublishedTimestamps) = {data[i].timestamp : i \in 1..Len(data)}
      ]_vars

\* rows that came out of order, two of them with one timestamp, were published
\* as one batch of two instruments and a later batch
C23_Witness ==
    /\ returned = "False"
    /\ out_of_order
    /\ Len(PublishedTimestamps) = 2
    /\ Cardinality(put_log[1].tickers) = 2

(***************************************************************************)
(* Failures and publication of the OrderExecutionManager                   *)
(***************************************************************************)
\* instruction i converts to an order
Converts(i) == Instr[i].action \in Actions /\ Instr[i].quantity # 0

AllConvert == \A i \in 1..Len(Instr) : Converts(i)

\* the first instruction that does not convert, and the exception of its conversion
FirstUnconverted == CHOOSE i \in 1..Len(Instr) : ~Converts(i) /\ \A j \in 1..(i - 1) : Converts(j)

ConversionError(i) == IF Instr[i].action \notin Actions THEN "TypeError" ELSE "ValueError"

\* C24: handle_event for the SIGNAL type with an event that is no SignalEvent
\* raises TypeError, without asking the PortfolioServer for the active order
\* tickers, and publishes no ORDER_CREATED event.
C24_TypeErrorOnNonSignal ==
    (om_pc = "handled" /\ ~event_arg.is_signal_event) =>
        /\ raised = "TypeError"
        /\ emitted = <<>>
        /\ ~last_call.present

\* the TypeError was raised with an instrument blocked and no account snapshot
C24_Witness ==
    /\ om_pc = "handled"
    /\ ~event_arg.is_signal_event
    /\ raised = "TypeError"
    /\ BlockedSymbols # {}
    /\ account = NoAccount

\* C25: when an instruction of a non-conflicting signal does not convert to an
\* order, handle_event ends with a RuntimeError raised from the ValueError or
\* TypeError of the conversion and has published nothing; when the observer raises
\* in the notify of an ORDER_CREATED event, handle_event ends with a RuntimeError
\* raised from that exception; in neither case does the call end normally.
C25_FailuresWrapped ==
    (HandledSignal /\ ~Conflicting) =>
        /\ ~AllConvert =>
              /\ raised = "RuntimeError"
              /\ raised_cause = ConversionError(FirstUnconverted)
              /\ emitted = <<>>
        /\ (AllConvert /\ observer_fails /\ emitted # <<>>) =>
              /\ raised = "RuntimeError"
              /\ raised_cause = "HandlerError"
              /\ Len(emitted) = 1

\* the second instruction of a signal carried a plain string for its action and
\* the first was in order
C25_Witness ==
    /\ HandledSignal
    /\ ~Conflicting
    /\ Len(Instr) = 2
    /\ Converts(1)
    /\ Instr[2].action \notin Actions
    /\ raised = "RuntimeError"
    /\ raised_cause = "TypeError"

\* C29: every entry instruction of a signal is tested against the one total over
\* all the instructions of the signal: it is published exactly when that total is
\* within the capital, so an entry instruction after a skipped one is skipped too.
C29_SameBatchTotal ==
    (HandledSignal /\ ~Conflicting /\ AllConvert /\ account # NoAccount
       /\ ~observer_fails) =>
        /\ \A i \in 1..Len(Instr) :
              IsEntry(i) => (EmittedFor(i) # {} <=> TotalCost <= account.capital)
        /\ \A i \in 1..Len(Instr) : \A j \in (i + 1)..Len(Instr) :
              (IsEntry(i) /\ IsEntry(j) /\ EmittedFor(i) = {}) => EmittedFor(j) = {}

\* the first entry instruction was skipped, and the second, which fits the
\* capital by itself, was skipped too
C29_Witness ==
    /\ HandledSignal
    /\ ~Conflicting
    /\ account # NoAccount
    /\ ~observer_fails
    /\ Len(Instr) = 2
    /\ IsEntry(1) /\ IsEntry(2)
    /\ Converts(1) /\ Converts(2)
    /\ InstructionCost(1) > account.capital
    /\ InstructionCost(2) <= account.capital
    /\ emitted = <<>>
    /\ raised = "none"

\* the instructions of the signal that pass the admission test, in their order
AdmittedInstructions ==
    SelectSeq([i \in 1..Len(Instr) |-> i],
              LAMBDA i : IsExit(i) \/ (account # NoAccount /\ TotalCost <= account.capital))

\* the ORDER_CREATED event of instruction i
ExpectedEvent(i) ==
    [timestamp |-> event_arg.timestamp, trade_id |-> Instr[i].trade_id,
     leg_id |-> Instr[i].leg_id, action |-> Instr[i].action,
     contract |-> Instr[i].instrument, order |-> to_order(Instr[i])]

ExpectedEvents == [k \in 1..Len(AdmittedInstructions) |-> ExpectedEvent(AdmittedInstructions[k])]

\* C30: a call that ends normally has published, in the order of the instructions,
\* one ORDER_CREATED event for each instruction that passes the admission test,
\* with the timestamp of the signal and the trade id, leg id, action, contract and
\* order of the instruction, and nothing for the others; a call that ends with an
\* exception has published a prefix of these.
C30_OrderCreatedContents ==
    (HandledSignal /\ ~Conflicting /\ AllConvert) =>
        /\ raised = "none" => emitted = ExpectedEvents
        /\ raised # "none" =>
              /\ Len(emitted) <= Len(ExpectedEvents)
              /\ emitted = SubSeq(ExpectedEvents, 1, Len(emitted))

\* the two instructions of a signal of the later timestamp were published in
\* their order
C30_Witness ==
    /\ HandledSignal
    /\ raised = "none"
    /\ event_arg.timestamp = 2
    /\ Len(emitted) = 2
    /\ emitted[1].leg_id = 1 /\ emitted[2].leg_id = 2
    /\ emitted[1].timestamp = 2 /\ emitted[1].trade_id = 1
    /\ emitted[1].contract # emitted[2].contract

(***************************************************************************)
(* Properties of the order constructors                                    *)
(***************************************************************************)
\* C26: a constructor called with quantity 0, a LimitOrder with a limit price <= 0
\* and a StopLoss with a stop price <= 0 end with an error and leave no order.
C26_OrderValidation ==
    (/\ built.kind # "none"
     /\ \/ built.quantity = 0
        \/ built.kind \in {"LMT", "STP"} /\ built.price <= 0)
    => /\ built.order.error # "none"
       /\ built.order = NoOrderBuilt(built.order.error)

\* a limit order with an Action, a non-zero quantity and the limit price 0 was
\* rejected
C26_Witness ==
    /\ built.kind = "LMT"
    /\ built.action \in Actions
    /\ built.quantity # 0
    /\ built.price = 0
    /\ built.order.error = "ValueError"

\* C27: an order that was constructed has the action BUY for LONG and COVER and
\* SELL for SHORT and SELL, stores the absolute value of the quantity, which is
\* positive, and its quantity accessor gives the stored quantity for BUY and its
\* negative for SELL.
C27_OrderNormalisation ==
    (built.kind # "none" /\ built.order.error = "none") =>
        /\ built.action \in {"LONG", "COVER"} => built.order.action = "BUY"
        /\ built.action \in {"SHORT", "SELL"} => built.order.action = "SELL"
        /\ built.order.action \in {"BUY", "SELL"}
        /\ built.order.totalQuantity = Abs(built.quantity)
        /\ built.order.totalQuantity > 0
        /\ built.order.action = "BUY" =>
              order_quantity(built.order) = built.order.totalQuantity
        /\ built.order.action = "SELL" =>
              order_quantity(built.order) = 0 - built.order.totalQuantity

\* a SHORT order of a negative quantity: stored positive, read negative
C27_Witness ==
    /\ built.kind = "STP"
    /\ built.action = "SHORT"
    /\ built.quantity < 0
    /\ built.order.error = "none"
    /\ built.order.totalQuantity = 0 - built.quantity
    /\ order_quantity(built.order) = built.quantity

(***************************************************************************)
(* Properties of the ContractManager                                       *)
(***************************************************************************)
\* this step is a validate_contract call that returned
ValidateReturned ==
    /\ contract_call'.op = "validate_contract"
    /\ contract_call'.raised = "none"

HandleEventStep == om_pc = "idle" /\ om_pc' = "handled"

\* C31: a handle_event call, whether the signal is dropped, partly or fully
\* admitted or fails, leaves positions, active_orders and
\* pending_positions_update of the PortfolioServer as they were, and the account
\* too, unless the observer of ORDER_CREATED made an update_account_details call
\* of its own in its handler.
C31_ManagerReadsOnly ==
    [][HandleEventStep =>
          /\ positions' = positions
          /\ active_orders' = active_orders
          /\ pending_positions_update' = pending_positions_update
          /\ account' # account =>
                /\ observer_updates # NoAccount
                /\ emitted' # <<>>
                /\ account' = observer_updates
      ]_vars

\* a signal of two instructions was partly admitted while the PortfolioServer
\* held an active order and an account snapshot
C31_Witness ==
    /\ HandledSignal
    /\ ~Conflicting
    /\ Len(Instr) = 2
    /\ Len(emitted) = 1
    /\ raised = "none"
    /\ DOMAIN active_orders # {}
    /\ account # NoAccount
    /\ account.capital > 0

\* C32: when an instruction of a signal does not convert to an order, no
\* ORDER_CREATED event is published for any instruction of the signal.
C32_ConstructionAtomic ==
    (HandledSignal /\ ~Conflicting /\ ~AllConvert) => emitted = <<>>

\* the first instruction was an exit, which the admission test always admits,
\* and the second did not convert: nothing was published
C32_Witness ==
    /\ HandledSignal
    /\ ~Conflicting
    /\ Len(Instr) = 2
    /\ IsExit(1) /\ Converts(1)
    /\ ~Converts(2)
    /\ raised = "RuntimeError"
    /\ emitted = <<>>

\* C33: all entry instructions of a signal get the same admission decision,
\* also when the observer of ORDER_CREATED changes the capital of the account
\* with update_account_details during the dispatch of an earlier order.
C33_SameDecisionUnderReentry ==
    (HandledSignal /\ ~Conflicting /\ AllConvert /\ raised = "none") =>
        \A i \in 1..Len(Instr) : \A j \in 1..Len(Instr) :
            (IsEntry(i) /\ IsEntry(j)) => (EmittedFor(i) # {} <=> EmittedFor(j) # {})

\* the quantity _handle_signal hands to Symbol.cost for instruction i: order.quantity
CostQuantity(i) == order_quantity(to_order(Instr[i]))

\* C34: the capital cost of every instruction is computed from a positive
\* quantity and is not negative, so the total over the instructions of a signal
\* is not less than the total over its entry instructions.
C34_CostFromPositiveQuantity ==
    (HandledSignal /\ ~Conflicting /\ AllConvert) =>
        /\ \A i \in 1..Len(Instr) :
              /\ CostQuantity(i) > 0
              /\ cost(CostQuantity(i), retrieve(Instr[i].instrument)) >= 0
        /\ SumCost([i \in 1..Len(Instr) |-> order_details(event_arg.timestamp, Instr[i])])
              >= EntryCost

(***************************************************************************)
(* The day boundary and the flag                                           *)
(***************************************************************************)
\* the steps of the clock at a day boundary, and the set of the consumer
ClearStep == clock_pc = "idle" /\ clock_pc' = "eod"

PutStep == clock_pc = "eod" /\ clock_pc' = "wait"

SetStep == handling.type = "END-OF-DAY" /\ handling' = NoEvent

\* C35: at a day boundary the clock clears the flag before it puts the EODEvent:
\* the clear finds no EODEvent waiting to be dispatched and puts none, the put
\* finds the flag clear, and the consumer sets the flag for an EODEvent only
\* after both; so the clock never waits with the flag clear and no EODEvent left
\* whose dispatch would set it.
C35_ClearBeforePut ==
    [][/\ ClearStep =>
             /\ ~eod_event_flag'
             /\ put_log' = put_log
             /\ ~EodUndispatched
       /\ PutStep =>
             /\ ~eod_event_flag
             /\ Len(put_log') = Len(put_log) + 1
             /\ put_log'[Len(put_log')].type = "END-OF-DAY"
       /\ SetStep =>
             /\ clock_pc # "eod"
             /\ eod_event_flag'
       /\ (clock_pc \in {"wait", "poll"} /\ ~eod_event_flag) => EodUndispatched
      ]_vars

\* the consumer has set the flag for the EODEvent the clock put last, and the
\* clock is at the test of the flag with nothing left on the queue
C35_Witness ==
    /\ clock_pc = "wait"
    /\ eod_event_flag
    /\ put_log # <<>>
    /\ put_log[Len(put_log)].type = "END-OF-DAY"
    /\ Undispatched = {}

\* the call made last returned from the flag wait: its timestamp is still pending
LastReturnedEarly ==
    /\ clock_pc = "idle"
    /\ returned = "True"
    /\ MoreData
    /\ next_date = unique_timestamps[current_date_index + 1]

\* C36: a return from the flag wait leaves the cursor and the published data as
\* they were, with current_day already that of the pending timestamp; the next
\* call goes to the flag test without clearing the flag or putting an EODEvent;
\* and a flag test that finds the flag set is followed by the publication of the
\* pending timestamp.
C36_EarlyReturnFrame ==
    [][/\ (clock_pc = "poll" /\ clock_pc' = "idle") =>
             /\ current_date_index' = current_date_index
             /\ put_log' = put_log
             /\ LastReturnedEarly'
             /\ current_day' = DayOf(unique_timestamps[current_date_index + 1])
       /\ (LastReturnedEarly /\ clock_pc' # "idle") =>
             /\ clock_pc' = "wait"
             /\ eod_event_flag' = eod_event_flag
             /\ put_log' = put_log
             /\ next_date' = next_date
             /\ current_date_index' = current_date_index
       /\ (clock_pc = "wait" /\ clock_pc' # "wait") =>
             clock_pc' = (IF eod_event_flag THEN "publish" ELSE "poll")
       /\ (clock_pc = "publish" /\ clock_pc' # "publish") =>
             /\ put_log'[Len(put_log')].type = "MARKET_DATA"
             /\ put_log'[Len(put_log')].timestamp = unique_timestamps[current_date_index + 1]
             /\ current_date_index' = current_date_index + 1
      ]_vars

\* after a return from the flag wait a later call found the flag set and is
\* about to publish the pending timestamp; one EODEvent was put, the last put
C36_Witness ==
    /\ clock_pc = "publish"
    /\ returned_early
    /\ put_log # <<>>
    /\ put_log[Len(put_log)].type = "END-OF-DAY"
    /\ Cardinality({i \in 1..Len(put_log) : put_log[i].type = "END-OF-DAY"}) = 1
    /\ Undispatched = {}

\* C37: when the driver keeps calling data_stream and the consumer handles every
\* event on the queue, the replay of the data that get_data loaded comes to its
\* end, data_stream returning False with every distinct timestamp of the data
\* published, and every flag wait comes to its end.
C37_ReplayTerminates ==
    /\ (clock_pc # "new") ~>
          (/\ returned = "False"
           /\ Range(PublishedTimestamps) = {data[i].timestamp : i \in 1..Len(data)})
    /\ (clock_pc \in {"wait", "poll"}) ~> (clock_pc \in {"idle", "publish"})

\* the replay of three days has come to its end after a return from the flag wait
C37_Witness ==
    /\ returned = "False"
    /\ returned_early
    /\ Cardinality(DaysInData) = 3
    /\ Len(PublishedTimestamps) = 3
    /\ Undispatched = {}

(***************************************************************************)
(* The orders the PortfolioServer holds                                    *)
(***************************************************************************)
\* C38: every order in active_orders has a status other than Filled and
\* Cancelled and is stored under its own order id, so each order id occurs once.
C38_NoTerminalStored ==
    \A id \in DOMAIN active_orders :
        /\ active_orders[id].status \notin {"Filled", "Cancelled"}
        /\ active_orders[id].orderId = id

\* an update_orders call has merged a new open status into a stored order while
\* another order was active
C38_Witness ==
    /\ last_call.op = "update_orders"
    /\ last_call.present
    /\ last_call.order.status = "Submitted"
    /\ last_call.order.orderId \in DOMAIN active_orders
    /\ active_orders[last_call.order.orderId] = last_call.order
    /\ Cardinality(DOMAIN active_orders) = 2

\* this step is an update_orders call with a terminal status for an order id
\* that is not in active_orders
TerminalForUnknown ==
    /\ last_call'.op = "update_orders"
    /\ last_call'.order.status \in {"Filled", "Cancelled"}
    /\ last_call'.order.orderId \notin DOMAIN active_orders

\* C39: update_orders with status Filled or Cancelled for an order id that is
\* not in active_orders leaves active_orders, pending_positions_update, positions
\* and account as they were.
C39_UnknownTerminalFrame ==
    [][TerminalForUnknown =>
          /\ active_orders' = active_orders
          /\ pending_positions_update' = pending_positions_update
          /\ positions' = positions
          /\ account' = account
      ]_vars

\* a fill was reported for an order id that was not active, while another order
\* was: its instrument has no pending marker
C39_Witness ==
    /\ last_call.op = "update_orders"
    /\ last_call.order.status = "Filled"
    /\ ~last_call.present
    /\ last_call.order.symbol \notin pending_positions_update
    /\ DOMAIN active_orders # {}
    /\ notified = <<"ORDER_UPDATE">>

(***************************************************************************)
(* notify while the handlers change the list                               *)
(***************************************************************************)
\* C40: a notify call invokes every observer that was attached for the event
\* type when the call started once for each of its attachments, also when the
\* handlers attach or detach observers for that event type during the call.
C40_EveryAttachedOnce ==
    [][NotifyStep =>
          \A observer \in Observers :
              count(invoked', observer) = count(Notified, observer)
      ]_vars

====
